---- MODULE Spec2Model ----
(***************************************************************************)
(* A model of drupal_ls: the process-wide document store behind its mutex, *)
(* the dispatch loop with its notification and request handlers, the       *)
(* start-up indexer task, and the two tree-walking extractors.             *)
(*                                                                         *)
(* Text is a sequence of one-character strings, so that the substring      *)
(* operations of the source (contains, find, starts_with, trim_matches,    *)
(* slicing) are computed and not assumed.  A syntax tree is a sequence of  *)
(* nodes; node i has a parent with a smaller index (0 for the root).       *)
(***************************************************************************)
EXTENDS Integers, Sequences, FiniteSets, Bags, TLC

(***************************************************************************)
(* Option / panic values.                                                  *)
(***************************************************************************)
None == [tag |-> "None"]
Some(x) == [tag |-> "Some", val |-> x]
Panic == [tag |-> "Panic"]
IsSome(o) == o.tag = "Some"
IsNone(o) == o.tag = "None"
IsPanic(o) == o.tag = "Panic"

(***************************************************************************)
(* String operations of the Rust standard library, on character sequences. *)
(* An index is 1-based; 0 stands for "not found".                          *)
(***************************************************************************)
SetMin(S) == CHOOSE m \in S : \A k \in S : m <= k
SetMax(S) == CHOOSE m \in S : \A k \in S : k <= m

MatchesAt(text, pat, i) ==
    /\ i >= 1
    /\ i + Len(pat) - 1 <= Len(text)
    /\ \A k \in 1..Len(pat) : text[i + k - 1] = pat[k]

str_find(text, pat) ==
    LET hits == {i \in 1..(Len(text) + 1) : MatchesAt(text, pat, i)}
    IN  IF hits = {} THEN 0 ELSE SetMin(hits)

str_contains(text, pat) == str_find(text, pat) # 0

starts_with(text, pat) == MatchesAt(text, pat, 1)

ends_with(text, pat) == MatchesAt(text, pat, Len(text) - Len(pat) + 1)

\* str::trim_matches: strips every leading and trailing character in chars.
trim_matches(text, chars) ==
    LET keep == {i \in 1..Len(text) : text[i] \notin chars}
    IN  IF keep = {} THEN <<>>
        ELSE SubSeq(text, SetMin(keep), CHOOSE m \in keep : \A k \in keep : k <= m)

\* String::replace(pat, "") for a one-character pattern.
remove_char(text, ch) == SelectSeq(text, LAMBDA c : c # ch)

\* A character that takes two bytes in UTF-8 and one UTF-16 code unit stands
\* in the texts as the name of its code point.
E_acute == "U+00E9"

\* str::len: the length in bytes.
RECURSIVE str_len(_)
str_len(text) ==
    IF text = <<>> THEN 0
    ELSE (IF Head(text) = E_acute THEN 2 ELSE 1) + str_len(Tail(text))

(***************************************************************************)
(* The literals the model's sources and rules are written with.            *)
(***************************************************************************)
S_yml == <<".", "y", "m", "l">>
S_yaml == <<".", "y", "a", "m", "l">>
S_php == <<".", "p", "h", "p">>
S_module == <<".", "m", "o", "d", "u", "l", "e">>
S_theme == <<".", "t", "h", "e", "m", "e">>
S_install == <<".", "i", "n", "s", "t", "a", "l", "l">>
S_permissions_yml == <<".", "p", "e", "r", "m", "i", "s", "s", "i", "o", "n", "s">> \o S_yml
S_hook == <<"h", "o", "o", "k">>
S_hook_ == S_hook \o <<"_">>
S_Implements_hook_ ==
    <<"I", "m", "p", "l", "e", "m", "e", "n", "t", "s", " ">> \o S_hook_
S_parens == <<"(", ")">>
S_colons == <<":", ":">>
S_Drupal_service ==
    <<"D", "r", "u", "p", "a", "l">> \o S_colons \o <<"s", "e", "r", "v", "i", "c", "e">>
S_container == <<"$", "c", "o", "n", "t", "a", "i", "n", "e", "r">>
S_get == <<"g", "e", "t">>
S_class == <<"c", "l", "a", "s", "s">>
S_my_svc == <<"m", "y", ".", "s", "v", "c">>
S_N == <<"N">>
S_C == <<"C">>
S_m == <<"m">>
S_NC == <<"N", "\\", "C">>
S_file == <<"f", "i", "l", "e", ":", "/", "/">>

(***************************************************************************)
(* Syntax trees, as tree-sitter hands them to the extractors.              *)
(* A point is <<row, column>>.                                             *)
(***************************************************************************)
Nd(kind, parent, field, start, end, text) ==
    [kind |-> kind, parent |-> parent, field |-> field,
     start |-> start, end |-> end, text |-> text]

point_le(p, q) == p[1] < q[1] \/ (p[1] = q[1] /\ p[2] <= q[2])

node_range(tree, n) == [start_point |-> tree[n].start, end_point |-> tree[n].end]

get_node_text(tree, n) == tree[n].text

node_parent(tree, n) == tree[n].parent

\* Node::children: the children of n, in source order.
node_children(tree, n) ==
    SelectSeq([i \in 1..Len(tree) |-> i], LAMBDA i : tree[i].parent = n)

\* Node::child_by_field_name: the first child in that field, 0 when there is none.
child_by_field_name(tree, n, field) ==
    LET cs == {i \in 1..Len(tree) : tree[i].parent = n /\ tree[i].field = field}
    IN  IF cs = {} THEN 0 ELSE SetMin(cs)

\* Node::prev_sibling: the child of the same parent just before n, 0 when none.
prev_sibling(tree, n) ==
    LET before == {i \in 1..Len(tree) : i < n /\ tree[i].parent = tree[n].parent}
    IN  IF tree[n].parent = 0 \/ before = {} THEN 0
        ELSE CHOOSE m \in before : \A k \in before : k <= m

\* Node::descendant_for_point_range(p, p): walk down from n, each time into the
\* first child that does not end before p, as long as that child starts at or
\* before p.
RECURSIVE descendant_for_point(_, _, _)
descendant_for_point(tree, n, p) ==
    LET notBefore == {i \in 1..Len(tree) : tree[i].parent = n /\ point_le(p, tree[i].end)}
    IN  IF notBefore = {} THEN n
        ELSE LET c == SetMin(notBefore)
             IN  IF point_le(tree[c].start, p) THEN descendant_for_point(tree, c, p) ELSE n

\* parser::get_closest_parent_by_kind: 0 when no ancestor has that kind.
RECURSIVE get_closest_parent_by_kind(_, _, _)
get_closest_parent_by_kind(tree, n, kind) ==
    LET p == tree[n].parent
    IN  IF p = 0 THEN 0
        ELSE IF tree[p].kind = kind THEN p
        ELSE get_closest_parent_by_kind(tree, p, kind)

(***************************************************************************)
(* parser/tokens.rs: tokens and the constructors from raw strings.         *)
(***************************************************************************)
Token(data, range) == [data |-> data, range |-> range]

\* The conversion that strips one character at each end.
PhpClassName_from_stripping_once(value) ==
    LET first == IF value # <<>> /\ Head(value) \in {"'", "\\"} THEN 2 ELSE 1
        last == IF Len(value) >= first /\ value[Len(value)] \in {"'", "\\"}
                THEN Len(value) - 1 ELSE Len(value)
    IN  SubSeq(value, first, last)

\* The conversion that splits at the last "::" (rsplit_once).
PhpMethod_try_from_last_colons(value) ==
    LET trimmed == trim_matches(value, {"'", "\\"})
        hits == {i \in 1..Len(trimmed) : MatchesAt(trimmed, <<":", ":">>, i)}
        at == IF hits = {} THEN 0 ELSE CHOOSE m \in hits : \A k \in hits : k <= m
    IN  IF at # 0
        THEN [tag |-> "Some",
              val |-> [name |-> SubSeq(trimmed, at + 2, Len(trimmed)),
                       class_name |-> [tag |-> "Some",
                                       val |-> trim_matches(SubSeq(trimmed, 1, at - 1), {"'", "\\"})],
                       service_name |-> [tag |-> "None"]]]
        ELSE [tag |-> "None"]

\* impl From<&str> for PhpClassName
PhpClassName_from(value) == trim_matches(value, {"'", "\\"})

\* impl TryFrom<&str> for PhpMethod: Some(method), or None for the Err value.
PhpMethod_try_from(value) ==
    LET trimmed == trim_matches(value, {"'", "\\"})
        at == str_find(trimmed, S_colons)
    IN  IF at # 0
        THEN Some([name |-> SubSeq(trimmed, at + 2, Len(trimmed)),
                   class_name |-> Some(PhpClassName_from(SubSeq(trimmed, 1, at - 1))),
                   service_name |-> None])
        ELSE None

(***************************************************************************)
(* parser/php.rs: the extractor of the imperative language.                *)
(***************************************************************************)
\* PhpParser::get_class_name_from_node
RECURSIVE closest_namespace_definition(_, _)
closest_namespace_definition(tree, prev) ==
    IF prev = 0 THEN 0
    ELSE IF tree[prev].kind = "namespace_definition" THEN prev
    ELSE closest_namespace_definition(tree, prev_sibling(tree, prev))

get_class_name_from_node(tree, n) ==
    IF tree[n].kind # "class_declaration" THEN None
    ELSE LET prev == closest_namespace_definition(tree, prev_sibling(tree, n))
         IN  IF prev = 0 THEN None
             ELSE LET namespace_node == child_by_field_name(tree, prev, "name")
                      name_node == child_by_field_name(tree, n, "name")
                  IN  IF namespace_node = 0 \/ name_node = 0 THEN None
                      ELSE Some(PhpClassName_from(
                               get_node_text(tree, namespace_node) \o <<"\\">>
                                   \o get_node_text(tree, name_node)))

\* PhpParser::parse_method_declaration
parse_method_declaration(tree, n) ==
    IF tree[n].kind # "method_declaration" THEN None
    ELSE LET class_node == get_closest_parent_by_kind(tree, n, "class_declaration")
             name_node == child_by_field_name(tree, n, "name")
         IN  IF class_node = 0 \/ name_node = 0 THEN None
             ELSE Some(Token([kind |-> "PhpMethodDefinition",
                              name |-> get_node_text(tree, name_node),
                              class_name |-> get_class_name_from_node(tree, class_node),
                              service_name |-> None],
                             node_range(tree, n)))

\* PhpParser::parse_function_definition
parse_function_definition(tree, n) ==
    LET name_node == child_by_field_name(tree, n, "name")
        parameters_node == child_by_field_name(tree, n, "parameters")
    IN  IF name_node = 0 THEN None
        ELSE IF starts_with(get_node_text(tree, name_node), S_hook)
        THEN IF parameters_node = 0 THEN None
             ELSE Some(Token([kind |-> "DrupalHookDefinition",
                              name |-> get_node_text(tree, name_node),
                              parameters |->
                                  Some(trim_matches(get_node_text(tree, parameters_node),
                                                    {"(", ")"}))],
                             node_range(tree, n)))
        ELSE None

\* PhpParser::parse_comment.  &text[start_bytes..end_bytes] panics when the
\* first "()" lies before the first "hook_".
parse_comment(tree, n) ==
    LET text == get_node_text(tree, n)
        start_bytes == str_find(text, S_hook_)
        end_bytes == str_find(text, S_parens)
    IN  IF str_contains(text, S_Implements_hook_)
        THEN IF start_bytes = 0 \/ end_bytes = 0 THEN None
             ELSE IF start_bytes > end_bytes THEN Panic
             ELSE Some(Token([kind |-> "DrupalHookReference",
                              name |-> SubSeq(text, start_bytes, end_bytes - 1)],
                             node_range(tree, n)))
        ELSE None

\* The literals parse_call_expression compares the call's name with.
S_fromRoute == <<"f", "r", "o", "m", "R", "o", "u", "t", "e">>
S_createFromRoute == <<"c", "r", "e", "a", "t", "e", "F", "r", "o", "m", "R", "o", "u", "t", "e">>
S_setRedirect == <<"s", "e", "t", "R", "e", "d", "i", "r", "e", "c", "t">>
S_service == <<"s", "e", "r", "v", "i", "c", "e">>
S_hasPermission == <<"h", "a", "s", "P", "e", "r", "m", "i", "s", "s", "i", "o", "n">>
S_getStorage == <<"g", "e", "t", "S", "t", "o", "r", "a", "g", "e">>
S_create == <<"c", "r", "e", "a", "t", "e">>
S_queue == <<"q", "u", "e", "u", "e">>
S_t == <<"t">>
S_queueFactory == <<"q", "u", "e", "u", "e", "F", "a", "c", "t", "o", "r", "y">>
S_entityTypeManager ==
    <<"e", "n", "t", "i", "t", "y", "T", "y", "p", "e", "M", "a", "n", "a", "g", "e", "r">>
S_BaseFieldDefinition ==
    <<"B", "a", "s", "e", "F", "i", "e", "l", "d", "D", "e", "f", "i", "n", "i", "t", "i", "o", "n">>
S_DataDefinition ==
    <<"D", "a", "t", "a", "D", "e", "f", "i", "n", "i", "t", "i", "o", "n">>

PluginReference(tree, n, plugin_type, string_content) ==
    Some(Token([kind |-> "DrupalPluginReference", plugin_type |-> plugin_type,
                plugin_id |-> get_node_text(tree, string_content)],
               node_range(tree, n)))

NamedReference(tree, n, kind, string_content) ==
    Some(Token([kind |-> kind, name |-> get_node_text(tree, string_content)],
               node_range(tree, n)))

\* PhpParser::parse_call_expression, the rules after the Drupal::service(...) one.
parse_call_by_name(tree, n, name, string_content) ==
    LET object_node == child_by_field_name(tree, n, "object")
        scope_node == child_by_field_name(tree, n, "scope")
    IN  IF name = S_fromRoute \/ name = S_createFromRoute \/ name = S_setRedirect
        THEN NamedReference(tree, n, "DrupalRouteReference", string_content)
        ELSE IF name = S_service
        THEN NamedReference(tree, n, "DrupalServiceReference", string_content)
        ELSE IF name = S_hasPermission
        THEN NamedReference(tree, n, "DrupalPermissionReference", string_content)
        ELSE IF name = S_get
        THEN IF object_node = 0 THEN None
             ELSE IF get_node_text(tree, object_node) = S_container
             THEN NamedReference(tree, n, "DrupalServiceReference", string_content)
             ELSE IF str_contains(get_node_text(tree, object_node), S_queueFactory)
             THEN PluginReference(tree, n, "QueueWorker", string_content)
             ELSE None
        ELSE IF name = S_getStorage
        THEN IF object_node = 0 THEN None
             ELSE IF str_contains(get_node_text(tree, object_node), S_entityTypeManager)
             THEN PluginReference(tree, n, "EntityType", string_content)
             ELSE None
        ELSE IF name = S_create
        THEN IF scope_node = 0 THEN None
             ELSE IF str_contains(get_node_text(tree, scope_node), S_BaseFieldDefinition)
             THEN PluginReference(tree, n, "FieldType", string_content)
             ELSE IF str_contains(get_node_text(tree, scope_node), S_DataDefinition)
             THEN PluginReference(tree, n, "DataType", string_content)
             ELSE None
        ELSE IF name = S_queue
        THEN PluginReference(tree, n, "QueueWorker", string_content)
        ELSE IF name = S_t
        THEN Some(Token([kind |-> "DrupalTranslationString",
                         string |-> get_node_text(tree, string_content),
                         placeholders |-> None],
                        node_range(tree, n)))
        ELSE None

\* PhpParser::parse_call_expression.  point is None in scan mode.
parse_call_expression(tree, n, point) ==
    IF IsNone(point) THEN None
    ELSE
    LET string_content == descendant_for_point(tree, n, point.val)
        name_node == IF tree[n].kind = "function_call_expression"
                     THEN child_by_field_name(tree, n, "function")
                     ELSE child_by_field_name(tree, n, "name")
        object_node == child_by_field_name(tree, n, "object")
    IN  IF name_node = 0 THEN None
        ELSE IF tree[n].kind = "member_call_expression" /\ object_node = 0 THEN None
        ELSE IF /\ tree[n].kind = "member_call_expression"
                /\ str_contains(get_node_text(tree, object_node), S_Drupal_service)
        THEN LET arguments == child_by_field_name(tree, object_node, "arguments")
             IN  IF arguments = 0 THEN None
                 ELSE Some(Token([kind |-> "PhpMethodReference",
                                  name |-> get_node_text(tree, name_node),
                                  class_name |-> None,
                                  service_name |->
                                      Some(trim_matches(get_node_text(tree, arguments),
                                                        {"'", "(", ")"}))],
                                 node_range(tree, n)))
        ELSE IF tree[string_content].kind # "string_content" THEN None
        ELSE parse_call_by_name(tree, n, get_node_text(tree, name_node), string_content)

(***************************************************************************)
(* Class attributes (plugins), from a PHP attribute or from a doc comment. *)
(***************************************************************************)
S_ContentEntityType ==
    <<"C", "o", "n", "t", "e", "n", "t", "E", "n", "t", "i", "t", "y", "T", "y", "p", "e">>
S_ConfigEntityType ==
    <<"C", "o", "n", "f", "i", "g", "E", "n", "t", "i", "t", "y", "T", "y", "p", "e">>
S_QueueWorker == <<"Q", "u", "e", "u", "e", "W", "o", "r", "k", "e", "r">>
S_FieldType == <<"F", "i", "e", "l", "d", "T", "y", "p", "e">>
S_DataType == <<"D", "a", "t", "a", "T", "y", "p", "e">>
S_FormElement == <<"F", "o", "r", "m", "E", "l", "e", "m", "e", "n", "t">>
S_RenderElement == <<"R", "e", "n", "d", "e", "r", "E", "l", "e", "m", "e", "n", "t">>
S_code == <<"@", "c", "o", "d", "e">>
S_endcode == <<"@", "e", "n", "d", "c", "o", "d", "e">>
S_id == <<"i", "d">>

\* impl TryFrom<&str> for DrupalPluginType
DrupalPluginType_try_from(value) ==
    IF value = S_ContentEntityType \/ value = S_ConfigEntityType THEN Some("EntityType")
    ELSE IF value = S_QueueWorker THEN Some("QueueWorker")
    ELSE IF value = S_FieldType THEN Some("FieldType")
    ELSE IF value = S_DataType THEN Some("DataType")
    ELSE IF value = S_FormElement THEN Some("FormElement")
    ELSE IF value = S_RenderElement THEN Some("RenderElement")
    ELSE None

Whitespace == {" ", "\n", "\t", "\r"}

\* The first index at or after i that holds no whitespace (Len + 1 when none).
skip_whitespace(text, i) ==
    SetMin({j \in i..(Len(text) + 1) : j = Len(text) + 1 \/ text[j] \notin Whitespace})

\* The index of the first line break at or after i (Len + 1 when none).
line_end(text, i) ==
    SetMin({j \in i..(Len(text) + 1) : j = Len(text) + 1 \/ text[j] = "\n"})

\* str::trim
str_trim(text) == trim_matches(text, Whitespace)

\* str::lines
RECURSIVE str_lines(_)
str_lines(text) ==
    IF text = <<>> THEN <<>>
    ELSE LET e == line_end(text, 1)
         IN  <<SubSeq(text, 1, e - 1)>> \o str_lines(SubSeq(text, e + 1, Len(text)))

\* Regex ^\s*\*\s? replaced by "" on one line.
strip_comment_star(line) ==
    LET j == skip_whitespace(line, 1)
    IN  IF j <= Len(line) /\ line[j] = "*"
        THEN IF j + 1 <= Len(line) /\ line[j + 1] \in Whitespace
             THEN SubSeq(line, j + 2, Len(line))
             ELSE SubSeq(line, j + 1, Len(line))
        ELSE line

RECURSIVE join_lines(_)
join_lines(lines) ==
    IF lines = <<>> THEN <<>>
    ELSE IF Len(lines) = 1 THEN lines[1]
    ELSE lines[1] \o <<"\n">> \o join_lines(Tail(lines))

\* PhpParser::extract_usage_example_from_comment.  The slice
\* cleaned_example[..len - 1] panics when the example has no line at all.
extract_usage_example_from_comment(tree, comment_node) ==
    IF tree[comment_node].kind # "comment" THEN None
    ELSE LET comment_text == get_node_text(tree, comment_node)
             start_index == str_find(comment_text, S_code)
             end_index == str_find(comment_text, S_endcode)
         IN  IF start_index # 0 /\ end_index # 0 /\ end_index > start_index
             THEN LET example == str_trim(SubSeq(comment_text, start_index + Len(S_code),
                                                 end_index - 1))
                      cleaned_example ==
                          [i \in 1..Len(str_lines(example)) |->
                              strip_comment_star(str_lines(example)[i])]
                  IN  IF Len(cleaned_example) = 0 THEN Panic
                      ELSE Some(str_trim(join_lines(
                               SubSeq(cleaned_example, 1, Len(cleaned_example) - 1))))
             ELSE None

\* Regex \*\s*@(?<type>.+)\( : the leftmost match, with the greedy .+ running to
\* the last "(" of its line.  None when the comment has no match.
comment_plugin_type(text) ==
    LET at(i) == skip_whitespace(text, i + 1)
        opens(i) == {k \in (at(i) + 2)..(line_end(text, at(i) + 1) - 1) : text[k] = "("}
        hits == {i \in 1..Len(text) :
                    /\ text[i] = "*"
                    /\ at(i) <= Len(text)
                    /\ text[at(i)] = "@"
                    /\ opens(i) # {}}
    IN  IF hits = {} THEN None
        ELSE LET i == SetMin(hits)
                 k == CHOOSE m \in opens(i) : \A o \in opens(i) : o <= m
             IN  DrupalPluginType_try_from(SubSeq(text, at(i) + 1, k - 1))

\* Regex id\s*=\s*"(?<id>[^"]+)" : the leftmost match.
comment_plugin_id(text) ==
    LET eq(i) == skip_whitespace(text, i + 2)
        quote(i) == skip_whitespace(text, eq(i) + 1)
        close(i) == SetMin({k \in (quote(i) + 1)..(Len(text) + 1) :
                               k = Len(text) + 1 \/ text[k] = "\""})
        hits == {i \in 1..Len(text) :
                    /\ MatchesAt(text, S_id, i)
                    /\ eq(i) <= Len(text) /\ text[eq(i)] = "="
                    /\ quote(i) <= Len(text) /\ text[quote(i)] = "\""
                    /\ close(i) <= Len(text)
                    /\ close(i) > quote(i) + 1}
    IN  IF hits = {} THEN None
        ELSE LET i == SetMin(hits)
             IN  Some(SubSeq(text, quote(i) + 1, close(i) - 1))

\* Node::is_named: punctuation nodes are anonymous.
is_named(tree, n) ==
    tree[n].kind \notin {"{", "}", "(", ")", "[", "]", "#[", ";", ",", ":", "->", "::", "="}

\* Node::named_child(i), 0-based; 0 when there is none.
named_child(tree, n, i) ==
    LET named == SelectSeq(node_children(tree, n), LAMBDA c : is_named(tree, c))
    IN  IF i + 1 <= Len(named) THEN named[i + 1] ELSE 0

\* Node::child(0); 0 when there is none.
first_child(tree, n) ==
    IF node_children(tree, n) = <<>> THEN 0 ELSE node_children(tree, n)[1]

\* Node::prev_named_sibling; 0 when there is none.
prev_named_sibling(tree, n) ==
    LET before == {i \in 1..Len(tree) :
                      i < n /\ tree[i].parent = tree[n].parent /\ is_named(tree, i)}
    IN  IF tree[n].parent = 0 \/ before = {} THEN 0
        ELSE CHOOSE m \in before : \A k \in before : k <= m

Plugin(plugin_type, plugin_id, usage_example) ==
    [plugin_type |-> plugin_type, plugin_id |-> plugin_id, usage_example |-> usage_example]

\* The loop of parse_class_attribute over the attribute's arguments: Some(id),
\* or None when a `?` leaves the function.
RECURSIVE attribute_plugin_id(_, _, _, _)
attribute_plugin_id(tree, arguments, i, plugin_id) ==
    IF i > Len(arguments) THEN Some(plugin_id)
    ELSE LET argument == arguments[i]
             text == get_node_text(tree, argument)
             argument_name == child_by_field_name(tree, argument, "name")
         IN  IF starts_with(text, <<"'">>) /\ ends_with(text, <<"'">>)
             THEN Some(trim_matches(text, {"\"", "'"}))
             ELSE IF argument_name = 0 THEN None
             ELSE IF get_node_text(tree, argument_name) = S_id
             THEN IF named_child(tree, argument, 1) = 0 THEN None
                  ELSE attribute_plugin_id(tree, arguments, i + 1,
                           trim_matches(get_node_text(tree, named_child(tree, argument, 1)),
                                        {"\"", "'"}))
             ELSE attribute_plugin_id(tree, arguments, i + 1, plugin_id)

\* PhpParser::parse_class_attribute: Some(plugin), None, or Panic.
parse_class_attribute(tree, n) ==
    IF tree[n].kind # "attribute" THEN None
    ELSE LET parameters_node == child_by_field_name(tree, n, "parameters")
         IN  IF parameters_node = 0 THEN None
             ELSE
             LET plugin_id ==
                     attribute_plugin_id(tree,
                         SelectSeq(node_children(tree, parameters_node),
                                   LAMBDA c : is_named(tree, c)), 1, <<>>)
                 label == first_child(tree, n)
                 group == node_parent(tree, n)
                 list == IF group = 0 THEN 0 ELSE node_parent(tree, group)
                 class == IF list = 0 THEN 0 ELSE node_parent(tree, list)
                 comment == IF class = 0 THEN 0 ELSE prev_named_sibling(tree, class)
             IN  IF IsNone(plugin_id) \/ label = 0 THEN None
                 ELSE IF IsNone(DrupalPluginType_try_from(get_node_text(tree, label)))
                 THEN None
                 ELSE IF comment = 0 THEN None
                 ELSE LET usage_example == extract_usage_example_from_comment(tree, comment)
                      IN  IF IsPanic(usage_example) THEN Panic
                          ELSE Some(Plugin(
                                   DrupalPluginType_try_from(get_node_text(tree, label)).val,
                                   plugin_id.val, usage_example))

\* The attribute part of parse_class_declaration: Some(attribute) with attribute
\* an Option, None when a `?` leaves parse_class_declaration, or Panic.
class_attribute(tree, n) ==
    LET attributes_node == child_by_field_name(tree, n, "attributes")
        comment_node == prev_named_sibling(tree, n)
    IN  IF attributes_node # 0
        THEN LET attribute_group == first_child(tree, attributes_node)
             IN  IF attribute_group = 0 THEN None
                 ELSE IF named_child(tree, attribute_group, 0) = 0 THEN None
                 ELSE LET a == parse_class_attribute(tree,
                                   named_child(tree, attribute_group, 0))
                      IN  IF IsPanic(a) THEN Panic ELSE Some(a)
        ELSE IF comment_node # 0 /\ tree[comment_node].kind = "comment"
        THEN LET text == get_node_text(tree, comment_node)
                 plugin_type == comment_plugin_type(text)
                 plugin_id == comment_plugin_id(text)
             IN  IF IsSome(plugin_type) /\ IsSome(plugin_id)
                 THEN LET usage_example ==
                              extract_usage_example_from_comment(tree, comment_node)
                      IN  IF IsPanic(usage_example) THEN Panic
                          ELSE Some(Some(Plugin(plugin_type.val, plugin_id.val,
                                                usage_example)))
                 ELSE Some(None)
        ELSE Some(None)

\* The methods map of parse_class_declaration: method name -> child token; a
\* later declaration of a name replaces an earlier one (HashMap::insert).
\* The map that holds the first declared method only.
class_methods_of_first(tree, n) ==
    LET body_node == child_by_field_name(tree, n, "body")
        declared == IF body_node = 0 THEN {}
                    ELSE {c \in 1..Len(tree) :
                             /\ tree[c].parent = body_node
                             /\ IsSome(parse_method_declaration(tree, c))}
        first == IF declared = {} THEN {} ELSE {SetMin(declared)}
    IN  [name \in {parse_method_declaration(tree, c).val.data.name : c \in first} |->
            parse_method_declaration(tree, SetMin(declared)).val]

\* The HashMap of parse_class_declaration: insert per method declaration
\* among the children of the body, a later one replacing an earlier one of
\* the same name.
class_methods(tree, n) ==
    LET body_node == child_by_field_name(tree, n, "body")
        declared == IF body_node = 0 THEN {}
                    ELSE {c \in 1..Len(tree) :
                             /\ tree[c].parent = body_node
                             /\ IsSome(parse_method_declaration(tree, c))}
        names == {parse_method_declaration(tree, c).val.data.name : c \in declared}
        last(name) == CHOOSE c \in declared :
                          /\ parse_method_declaration(tree, c).val.data.name = name
                          /\ \A d \in declared :
                                 parse_method_declaration(tree, d).val.data.name = name
                                     => d <= c
    IN  [name \in names |-> parse_method_declaration(tree, last(name)).val]

\* The token of parse_class_declaration, given the attribute and the name.
class_token(tree, n, attribute, name) ==
    IF IsPanic(attribute) THEN Panic
    ELSE IF IsNone(attribute) \/ IsNone(name) THEN None
    ELSE Some(Token([kind |-> "PhpClassDefinition",
                     name |-> name.val,
                     attribute |-> attribute.val,
                     methods |-> class_methods(tree, n)],
                    node_range(tree, n)))

\* PhpParser::parse_class_declaration
parse_class_declaration(tree, n) ==
    class_token(tree, n, class_attribute(tree, n), get_class_name_from_node(tree, n))

\* PhpParser::parse_node
php_parse_node(tree, n, point) ==
    LET kind == tree[n].kind
    IN  IF kind = "class_declaration" THEN parse_class_declaration(tree, n)
        ELSE IF kind = "method_declaration" THEN parse_method_declaration(tree, n)
        ELSE IF kind \in {"scoped_call_expression", "member_call_expression",
                          "function_call_expression"}
        THEN parse_call_expression(tree, n, point)
        ELSE IF kind = "function_definition" THEN parse_function_definition(tree, n)
        ELSE IF kind = "comment" THEN parse_comment(tree, n)
        ELSE None

(***************************************************************************)
(* parser/yaml.rs: the extractor of the configuration language.            *)
(***************************************************************************)
S_title == <<"t", "i", "t", "l", "e">>
S_path == <<"p", "a", "t", "h">>
S_defaults == <<"d", "e", "f", "a", "u", "l", "t", "s">>
S_arguments == <<"a", "r", "g", "u", "m", "e", "n", "t", "s">>
S__controller == <<"_", "c", "o", "n", "t", "r", "o", "l", "l", "e", "r">>
S__form == <<"_", "f", "o", "r", "m">>
S__title == <<"_">> \o S_title
S__permission == <<"_", "p", "e", "r", "m", "i", "s", "s", "i", "o", "n">>
S_route_name == <<"r", "o", "u", "t", "e", "_", "n", "a", "m", "e">>

\* YamlParser::get_block_node_map: Some(key text -> value node), or None.  A
\* later pair with the same key replaces an earlier one.
get_block_node_map(tree, n) ==
    IF tree[n].kind # "block_node" THEN None
    ELSE IF first_child(tree, n) = 0 THEN None
    ELSE LET mapping == first_child(tree, n)
             pairs == {c \in 1..Len(tree) :
                          /\ tree[c].parent = mapping
                          /\ child_by_field_name(tree, c, "key") # 0
                          /\ child_by_field_name(tree, c, "value") # 0}
             key(c) == get_node_text(tree, child_by_field_name(tree, c, "key"))
             last(k) == CHOOSE c \in pairs :
                            key(c) = k /\ \A d \in pairs : key(d) = k => d <= c
         IN  Some([k \in {key(c) : c \in pairs} |->
                      child_by_field_name(tree, last(k), "value")])

\* map.get(key).and_then(f)
map_get_text(tree, map, key) ==
    IF key \in DOMAIN map THEN Some(get_node_text(tree, map[key])) ELSE None

\* YamlParser::parse_route_defaults
parse_route_defaults(tree, n) ==
    LET map == get_block_node_map(tree, n)
    IN  IF IsNone(map) THEN None
        ELSE Some([controller |->
                       IF S__controller \in DOMAIN map.val
                       THEN PhpMethod_try_from(get_node_text(tree, map.val[S__controller]))
                       ELSE None,
                   form |->
                       IF S__form \in DOMAIN map.val
                       THEN Some(PhpClassName_from(get_node_text(tree, map.val[S__form])))
                       ELSE None,
                   entity_form |-> map_get_text(tree, map.val, S__form),
                   title |-> map_get_text(tree, map.val, S__title)])

\* YamlParser::parse_flow_sequence
parse_flow_sequence(tree, n) ==
    IF tree[n].kind # "flow_sequence" THEN None
    ELSE Some([i \in 1..Len(node_children(tree, n)) |->
                  get_node_text(tree, node_children(tree, n)[i])])

\* The match on the key string that ends parse_block_mapping_pair.
parse_pair_by_key(tree, key, value_node, point) ==
    LET value == get_node_text(tree, value_node)
        range == node_range(tree, value_node)
    IN  IF key = S__controller
        THEN IF IsNone(PhpMethod_try_from(value)) THEN None
             ELSE Some(Token([kind |-> "PhpMethodReference"] @@ PhpMethod_try_from(value).val,
                             range))
        ELSE IF key = S__form \/ key = S_class
        THEN Some(Token([kind |-> "PhpClassReference", name |-> PhpClassName_from(value)],
                        range))
        ELSE IF key = S__permission
        THEN Some(Token([kind |-> "DrupalPermissionReference",
                         name |-> remove_char(value, "'")], range))
        ELSE IF key = S_route_name
        THEN Some(Token([kind |-> "DrupalRouteReference",
                         name |-> remove_char(value, "'")], range))
        ELSE IF key = S_arguments
        THEN IF IsNone(point) THEN None
             ELSE LET argument == descendant_for_point(tree, value_node, point.val)
                  IN  IF tree[argument].kind # "single_quote_scalar" THEN None
                      ELSE Some(Token([kind |-> "DrupalServiceReference",
                                       name |-> trim_matches(get_node_text(tree, argument),
                                                             {"'", "@"})],
                                      range))
        ELSE None

\* The classification as one flat chain: a permissions file whose mapping
\* has no title goes on to the route and service tests.
parse_block_mapping_pair_flat(tree, n, point, uri) ==
    LET key_node == child_by_field_name(tree, n, "key")
        value_node == child_by_field_name(tree, n, "value")
    IN  IF key_node = 0 \/ value_node = 0 THEN None
        ELSE
        LET key == get_node_text(tree, key_node)
            map == get_block_node_map(tree, value_node)
            by_key == parse_pair_by_key(tree, key, value_node, point)
        IN  IF IsNone(map) THEN by_key
            ELSE IF ends_with(uri, S_permissions_yml) /\ S_title \in DOMAIN map.val
            THEN Some(Token([kind |-> "DrupalPermissionDefinition",
                             name |-> key,
                             title |-> get_node_text(tree, map.val[S_title])],
                            node_range(tree, n)))
            ELSE IF S_path \in DOMAIN map.val /\ S_defaults \in DOMAIN map.val
            THEN IF IsNone(parse_route_defaults(tree, map.val[S_defaults])) THEN None
                 ELSE Some(Token([kind |-> "DrupalRouteDefinition",
                                  name |-> key,
                                  path |-> get_node_text(tree, map.val[S_path]),
                                  defaults |->
                                      parse_route_defaults(tree, map.val[S_defaults]).val],
                                 node_range(tree, n)))
            ELSE IF S_class \in DOMAIN map.val
            THEN Some(Token([kind |-> "DrupalServiceDefinition",
                             name |-> key,
                             class |-> PhpClassName_from(
                                           get_node_text(tree, map.val[S_class])),
                             arguments |->
                                 IF S_arguments \in DOMAIN map.val
                                 THEN parse_flow_sequence(tree, map.val[S_arguments])
                                 ELSE None],
                            node_range(tree, n)))
            ELSE by_key

\* YamlParser::parse_block_mapping_pair
parse_block_mapping_pair(tree, n, point, uri) ==
    LET key_node == child_by_field_name(tree, n, "key")
        value_node == child_by_field_name(tree, n, "value")
    IN  IF key_node = 0 \/ value_node = 0 THEN None
        ELSE
        LET key == get_node_text(tree, key_node)
            map == get_block_node_map(tree, value_node)
            by_key == parse_pair_by_key(tree, key, value_node, point)
        IN  IF IsNone(map) THEN by_key
            ELSE IF ends_with(uri, S_permissions_yml)
            THEN IF S_title \in DOMAIN map.val
                 THEN Some(Token([kind |-> "DrupalPermissionDefinition",
                                  name |-> key,
                                  title |-> get_node_text(tree, map.val[S_title])],
                                 node_range(tree, n)))
                 ELSE by_key
            ELSE IF S_path \in DOMAIN map.val /\ S_defaults \in DOMAIN map.val
            THEN IF IsNone(parse_route_defaults(tree, map.val[S_defaults])) THEN None
                 ELSE Some(Token([kind |-> "DrupalRouteDefinition",
                                  name |-> key,
                                  path |-> get_node_text(tree, map.val[S_path]),
                                  defaults |->
                                      parse_route_defaults(tree, map.val[S_defaults]).val],
                                 node_range(tree, n)))
            ELSE IF S_class \in DOMAIN map.val
            THEN Some(Token([kind |-> "DrupalServiceDefinition",
                             name |-> key,
                             class |-> PhpClassName_from(
                                           get_node_text(tree, map.val[S_class])),
                             arguments |->
                                 IF S_arguments \in DOMAIN map.val
                                 THEN parse_flow_sequence(tree, map.val[S_arguments])
                                 ELSE None],
                            node_range(tree, n)))
            ELSE by_key

\* YamlParser::parse_node
yaml_parse_node(tree, n, point, uri) ==
    IF tree[n].kind = "block_mapping_pair"
    THEN parse_block_mapping_pair(tree, n, point, uri)
    ELSE None

(***************************************************************************)
(* The walks shared by both extractors.                                    *)
(***************************************************************************)
\* The per-node recogniser of the file type's extractor.
parse_node(file_type, tree, n, point, uri) ==
    IF file_type = "Php" THEN php_parse_node(tree, n, point)
    ELSE yaml_parse_node(tree, n, point, uri)

\* parse_nodes: breadth first; a node that yields a token is not descended
\* into; error nodes are skipped.  Some(tokens), or Panic.
RECURSIVE parse_nodes(_, _, _, _, _, _, _)
\* One turn of the loop of parse_nodes, `parsed` being parse_node's result.
parse_nodes_step(file_type, tree, uri, current_nodes, i, new_nodes, tokens, parsed) ==
    IF tree[current_nodes[i]].kind = "ERROR"
    THEN parse_nodes(file_type, tree, uri, current_nodes, i + 1, new_nodes, tokens)
    ELSE IF IsPanic(parsed) THEN Panic
    ELSE IF IsSome(parsed)
    THEN parse_nodes(file_type, tree, uri, current_nodes, i + 1, new_nodes,
                     Append(tokens, parsed.val))
    ELSE parse_nodes(file_type, tree, uri, current_nodes, i + 1,
                     new_nodes \o node_children(tree, current_nodes[i]), tokens)

parse_nodes(file_type, tree, uri, current_nodes, i, new_nodes, tokens) ==
    IF i > Len(current_nodes)
    THEN IF new_nodes = <<>> THEN Some(tokens)
         ELSE parse_nodes(file_type, tree, uri, new_nodes, 1, <<>>, tokens)
    ELSE parse_nodes_step(file_type, tree, uri, current_nodes, i, new_nodes, tokens,
                          parse_node(file_type, tree, current_nodes[i], None, uri))

\* get_token_at_position: the first node on the chain from the smallest node
\* containing the point up to the root for which the recogniser yields a token.
RECURSIVE first_parseable(_, _, _, _, _)
\* One turn of the loop of get_token_at_position.
first_parseable_step(file_type, tree, uri, n, point, parsed) ==
    IF IsPanic(parsed) \/ IsSome(parsed) THEN parsed
    ELSE IF node_parent(tree, n) = 0 THEN None
    ELSE first_parseable(file_type, tree, uri, node_parent(tree, n), point)

first_parseable(file_type, tree, uri, n, point) ==
    first_parseable_step(file_type, tree, uri, n, point,
                         parse_node(file_type, tree, n, Some(point), uri))

get_token_at_position(file_type, tree, uri, position) ==
    first_parseable(file_type, tree, uri,
                    descendant_for_point(tree, 1, <<position.line, position.character>>),
                    <<position.line, position.character>>)

(***************************************************************************)
(* The source texts of the model and their syntax trees.  A content is     *)
(* named; its tree is what the grammar of its language yields for it.      *)
(* Only the text the rules read is kept on a node.                         *)
(*                                                                         *)
(*   Y_svc    my.svc:                  P_ref   <?php $container->get('my.svc');*)
(*              class: N\C                                                 *)
(*   Y_empty  (nothing)                P_bad   <?php // foo() Implements hook_x*)
(*   P_cls    <?php                    T_txt   plain text                  *)
(*            namespace N;                                                 *)
(*            class C {                                                    *)
(*              // foo() Implements hook_x                                 *)
(*              function m() {}                                            *)
(*            }                                                            *)
(***************************************************************************)
S_bad_comment ==
    <<"/", "/", " ", "f", "o", "o">> \o S_parens \o <<" ">> \o S_Implements_hook_ \o <<"x">>

Tree_Y_svc ==
    << Nd("stream", 0, "", <<0, 0>>, <<1, 12>>, <<>>),
       Nd("document", 1, "", <<0, 0>>, <<1, 12>>, <<>>),
       Nd("block_node", 2, "", <<0, 0>>, <<1, 12>>, <<>>),
       Nd("block_mapping", 3, "", <<0, 0>>, <<1, 12>>, <<>>),
       Nd("block_mapping_pair", 4, "", <<0, 0>>, <<1, 12>>, <<>>),
       Nd("flow_node", 5, "key", <<0, 0>>, <<0, 6>>, S_my_svc),
       Nd("plain_scalar", 6, "", <<0, 0>>, <<0, 6>>, S_my_svc),
       Nd("block_node", 5, "value", <<1, 2>>, <<1, 12>>, <<>>),
       Nd("block_mapping", 8, "", <<1, 2>>, <<1, 12>>, <<>>),
       Nd("block_mapping_pair", 9, "", <<1, 2>>, <<1, 12>>, <<>>),
       Nd("flow_node", 10, "key", <<1, 2>>, <<1, 7>>, S_class),
       Nd("plain_scalar", 11, "", <<1, 2>>, <<1, 7>>, S_class),
       Nd("flow_node", 10, "value", <<1, 9>>, <<1, 12>>, S_NC),
       Nd("plain_scalar", 13, "", <<1, 9>>, <<1, 12>>, S_NC) >>

Tree_Y_empty == << Nd("stream", 0, "", <<0, 0>>, <<0, 0>>, <<>>) >>

Tree_P_ref ==
    << Nd("program", 0, "", <<0, 0>>, <<0, 32>>, <<>>),
       Nd("php_tag", 1, "", <<0, 0>>, <<0, 5>>, <<>>),
       Nd("expression_statement", 1, "", <<0, 6>>, <<0, 32>>, <<>>),
       Nd("member_call_expression", 3, "", <<0, 6>>, <<0, 31>>, <<>>),
       Nd("variable_name", 4, "object", <<0, 6>>, <<0, 16>>, S_container),
       Nd("name", 4, "name", <<0, 18>>, <<0, 21>>, S_get),
       Nd("arguments", 4, "arguments", <<0, 21>>, <<0, 31>>,
          <<"(", "'">> \o S_my_svc \o <<"'", ")">>),
       Nd("argument", 7, "", <<0, 22>>, <<0, 30>>, <<"'">> \o S_my_svc \o <<"'">>),
       Nd("string", 8, "", <<0, 22>>, <<0, 30>>, <<"'">> \o S_my_svc \o <<"'">>),
       Nd("string_content", 9, "", <<0, 23>>, <<0, 29>>, S_my_svc) >>

Tree_P_cls ==
    << Nd("program", 0, "", <<0, 0>>, <<5, 1>>, <<>>),
       Nd("php_tag", 1, "", <<0, 0>>, <<0, 5>>, <<>>),
       Nd("namespace_definition", 1, "", <<1, 0>>, <<1, 12>>, <<>>),
       Nd("namespace_name", 3, "name", <<1, 10>>, <<1, 11>>, S_N),
       Nd("class_declaration", 1, "", <<2, 0>>, <<5, 1>>, <<>>),
       Nd("name", 5, "name", <<2, 6>>, <<2, 7>>, S_C),
       Nd("declaration_list", 5, "body", <<2, 8>>, <<5, 1>>, <<>>),
       Nd("comment", 7, "", <<3, 2>>, <<3, 28>>, S_bad_comment),
       Nd("method_declaration", 7, "", <<4, 2>>, <<4, 17>>, <<>>),
       Nd("name", 9, "name", <<4, 11>>, <<4, 12>>, S_m),
       Nd("formal_parameters", 9, "parameters", <<4, 12>>, <<4, 14>>, S_parens),
       Nd("compound_statement", 9, "body", <<4, 15>>, <<4, 17>>, <<"{", "}">>) >>

Tree_P_bad ==
    << Nd("program", 0, "", <<0, 0>>, <<0, 32>>, <<>>),
       Nd("php_tag", 1, "", <<0, 0>>, <<0, 5>>, <<>>),
       Nd("comment", 1, "", <<0, 6>>, <<0, 32>>, S_bad_comment) >>

(***************************************************************************)
(* Two more sources, which the direct calls below are made on.             *)
(*                                                                         *)
(*   Y_rt   r.x:                       P_api  <?php                        *)
(*            path: /x/{a}                    // Implements hook_x().      *)
(*            defaults:                       function hook_x($a) {}       *)
(*              _controller: N\C::m           Url::fromRoute('r.x');       *)
(*                                            \Drupal::service('my.svc')->m();*)
(***************************************************************************)
S_r_x == <<"r", ".", "x">>
S_path_x_a == <<"/", "x", "/", "{", "a", "}">>
S_NC_m == S_NC \o S_colons \o S_m
S_hook_x == S_hook_ \o <<"x">>
S_hook_comment == <<"/", "/", " ">> \o S_Implements_hook_ \o <<"x">> \o S_parens \o <<".">>
S_Url == <<"U", "r", "l">>
S_quoted_my_svc == <<"(", "'">> \o S_my_svc \o <<"'", ")">>

Tree_Y_rt ==
    << Nd("stream", 0, "", <<0, 0>>, <<3, 23>>, <<>>),
       Nd("document", 1, "", <<0, 0>>, <<3, 23>>, <<>>),
       Nd("block_node", 2, "", <<0, 0>>, <<3, 23>>, <<>>),
       Nd("block_mapping", 3, "", <<0, 0>>, <<3, 23>>, <<>>),
       Nd("block_mapping_pair", 4, "", <<0, 0>>, <<3, 23>>, <<>>),
       Nd("flow_node", 5, "key", <<0, 0>>, <<0, 3>>, S_r_x),
       Nd("plain_scalar", 6, "", <<0, 0>>, <<0, 3>>, S_r_x),
       Nd("block_node", 5, "value", <<1, 2>>, <<3, 23>>, <<>>),
       Nd("block_mapping", 8, "", <<1, 2>>, <<3, 23>>, <<>>),
       Nd("block_mapping_pair", 9, "", <<1, 2>>, <<1, 14>>, <<>>),
       Nd("flow_node", 10, "key", <<1, 2>>, <<1, 6>>, <<"p", "a", "t", "h">>),
       Nd("plain_scalar", 11, "", <<1, 2>>, <<1, 6>>, <<"p", "a", "t", "h">>),
       Nd("flow_node", 10, "value", <<1, 8>>, <<1, 14>>, S_path_x_a),
       Nd("plain_scalar", 13, "", <<1, 8>>, <<1, 14>>, S_path_x_a),
       Nd("block_mapping_pair", 9, "", <<2, 2>>, <<3, 23>>, <<>>),
       Nd("flow_node", 15, "key", <<2, 2>>, <<2, 10>>,
          <<"d", "e", "f", "a", "u", "l", "t", "s">>),
       Nd("plain_scalar", 16, "", <<2, 2>>, <<2, 10>>,
          <<"d", "e", "f", "a", "u", "l", "t", "s">>),
       Nd("block_node", 15, "value", <<3, 4>>, <<3, 23>>, <<>>),
       Nd("block_mapping", 18, "", <<3, 4>>, <<3, 23>>, <<>>),
       Nd("block_mapping_pair", 19, "", <<3, 4>>, <<3, 23>>, <<>>),
       Nd("flow_node", 20, "key", <<3, 4>>, <<3, 15>>,
          <<"_", "c", "o", "n", "t", "r", "o", "l", "l", "e", "r">>),
       Nd("plain_scalar", 21, "", <<3, 4>>, <<3, 15>>,
          <<"_", "c", "o", "n", "t", "r", "o", "l", "l", "e", "r">>),
       Nd("flow_node", 20, "value", <<3, 17>>, <<3, 23>>, S_NC_m),
       Nd("plain_scalar", 23, "", <<3, 17>>, <<3, 23>>, S_NC_m) >>

\*   Y_perm  adm:
\*             title: T
S_adm == <<"a", "d", "m">>

Tree_Y_perm ==
    << Nd("stream", 0, "", <<0, 0>>, <<1, 10>>, <<>>),
       Nd("document", 1, "", <<0, 0>>, <<1, 10>>, <<>>),
       Nd("block_node", 2, "", <<0, 0>>, <<1, 10>>, <<>>),
       Nd("block_mapping", 3, "", <<0, 0>>, <<1, 10>>, <<>>),
       Nd("block_mapping_pair", 4, "", <<0, 0>>, <<1, 10>>, <<>>),
       Nd("flow_node", 5, "key", <<0, 0>>, <<0, 3>>, S_adm),
       Nd("plain_scalar", 6, "", <<0, 0>>, <<0, 3>>, S_adm),
       Nd("block_node", 5, "value", <<1, 2>>, <<1, 10>>, <<>>),
       Nd("block_mapping", 8, "", <<1, 2>>, <<1, 10>>, <<>>),
       Nd("block_mapping_pair", 9, "", <<1, 2>>, <<1, 10>>, <<>>),
       Nd("flow_node", 10, "key", <<1, 2>>, <<1, 7>>, <<"t", "i", "t", "l", "e">>),
       Nd("plain_scalar", 11, "", <<1, 2>>, <<1, 7>>, <<"t", "i", "t", "l", "e">>),
       Nd("flow_node", 10, "value", <<1, 9>>, <<1, 10>>, <<"T">>),
       Nd("plain_scalar", 13, "", <<1, 9>>, <<1, 10>>, <<"T">>) >>

\*   P_cls0  <?php
\*           namespace N;
\*           class C {}
Tree_P_cls0 ==
    << Nd("program", 0, "", <<0, 0>>, <<2, 10>>, <<>>),
       Nd("php_tag", 1, "", <<0, 0>>, <<0, 5>>, <<>>),
       Nd("namespace_definition", 1, "", <<1, 0>>, <<1, 12>>, <<>>),
       Nd("namespace_name", 3, "name", <<1, 10>>, <<1, 11>>, S_N),
       Nd("class_declaration", 1, "", <<2, 0>>, <<2, 10>>, <<>>),
       Nd("name", 5, "name", <<2, 6>>, <<2, 7>>, S_C),
       Nd("declaration_list", 5, "body", <<2, 8>>, <<2, 10>>, <<>>) >>

Tree_P_api ==
    << Nd("program", 0, "", <<0, 0>>, <<4, 32>>, <<>>),
       Nd("php_tag", 1, "", <<0, 0>>, <<0, 5>>, <<>>),
       Nd("comment", 1, "", <<1, 0>>, <<1, 23>>, S_hook_comment),
       Nd("function_definition", 1, "", <<2, 0>>, <<2, 22>>, <<>>),
       Nd("name", 4, "name", <<2, 9>>, <<2, 15>>, S_hook_x),
       Nd("formal_parameters", 4, "parameters", <<2, 15>>, <<2, 19>>,
          <<"(", "$", "a", ")">>),
       Nd("compound_statement", 4, "body", <<2, 20>>, <<2, 22>>, <<"{", "}">>),
       Nd("expression_statement", 1, "", <<3, 0>>, <<3, 22>>, <<>>),
       Nd("scoped_call_expression", 8, "", <<3, 0>>, <<3, 21>>, <<>>),
       Nd("name", 9, "scope", <<3, 0>>, <<3, 3>>, S_Url),
       Nd("name", 9, "name", <<3, 5>>, <<3, 14>>,
          <<"f", "r", "o", "m", "R", "o", "u", "t", "e">>),
       Nd("arguments", 9, "arguments", <<3, 14>>, <<3, 21>>,
          <<"(", "'">> \o S_r_x \o <<"'", ")">>),
       Nd("argument", 12, "", <<3, 15>>, <<3, 20>>, <<"'">> \o S_r_x \o <<"'">>),
       Nd("string", 13, "", <<3, 15>>, <<3, 20>>, <<"'">> \o S_r_x \o <<"'">>),
       Nd("string_content", 14, "", <<3, 16>>, <<3, 19>>, S_r_x),
       Nd("expression_statement", 1, "", <<4, 0>>, <<4, 32>>, <<>>),
       Nd("member_call_expression", 16, "", <<4, 0>>, <<4, 31>>, <<>>),
       Nd("scoped_call_expression", 17, "object", <<4, 0>>, <<4, 26>>,
          <<"\\">> \o S_Drupal_service \o S_quoted_my_svc),
       Nd("name", 18, "scope", <<4, 0>>, <<4, 7>>, <<"\\", "D", "r", "u", "p", "a", "l">>),
       Nd("name", 18, "name", <<4, 9>>, <<4, 16>>,
          <<"s", "e", "r", "v", "i", "c", "e">>),
       Nd("arguments", 18, "arguments", <<4, 16>>, <<4, 26>>, S_quoted_my_svc),
       Nd("argument", 21, "", <<4, 17>>, <<4, 25>>, <<"'">> \o S_my_svc \o <<"'">>),
       Nd("string", 22, "", <<4, 17>>, <<4, 25>>, <<"'">> \o S_my_svc \o <<"'">>),
       Nd("string_content", 23, "", <<4, 18>>, <<4, 24>>, S_my_svc),
       Nd("name", 17, "name", <<4, 28>>, <<4, 29>>, S_m),
       Nd("arguments", 17, "arguments", <<4, 29>>, <<4, 31>>, S_parens) >>

(***************************************************************************)
(* Sources for the completion of routes.                                   *)
(*                                                                         *)
(*   Y_rt2  r.y:                       Y_rt0  r.z:                         *)
(*            path: /y/{a}/{b}                  path: /z                   *)
(*            defaults:                         defaults:                  *)
(*              _controller: N\C::m               _controller: N\C::m      *)
(*                                                                         *)
(* and PHP sources of two lines, <?php and a call of a static method with  *)
(* a string literal, optionally after a comment on the same line and       *)
(* optionally with an array as second argument.                           *)
(***************************************************************************)
S_r_y == <<"r", ".", "y">>
S_r_z == <<"r", ".", "z">>
S_path_y_a_b == <<"/", "y", "/", "{", "a", "}", "/", "{", "b", "}">>
S_path_z == <<"/", "z">>
S_php_tag == <<"<", "?", "p", "h", "p">>

RouteLines(name, path) ==
    <<name \o <<":">>,
      <<" ", " ">> \o S_path \o <<":", " ">> \o path,
      <<" ", " ">> \o S_defaults \o <<":">>,
      <<" ", " ", " ", " ">> \o S__controller \o <<":", " ">> \o S_NC_m>>

RouteTree(name, path) ==
    << Nd("stream", 0, "", <<0, 0>>, <<3, 23>>, <<>>),
       Nd("document", 1, "", <<0, 0>>, <<3, 23>>, <<>>),
       Nd("block_node", 2, "", <<0, 0>>, <<3, 23>>, <<>>),
       Nd("block_mapping", 3, "", <<0, 0>>, <<3, 23>>, <<>>),
       Nd("block_mapping_pair", 4, "", <<0, 0>>, <<3, 23>>, <<>>),
       Nd("flow_node", 5, "key", <<0, 0>>, <<0, str_len(name)>>, name),
       Nd("plain_scalar", 6, "", <<0, 0>>, <<0, str_len(name)>>, name),
       Nd("block_node", 5, "value", <<1, 2>>, <<3, 23>>, <<>>),
       Nd("block_mapping", 8, "", <<1, 2>>, <<3, 23>>, <<>>),
       Nd("block_mapping_pair", 9, "", <<1, 2>>, <<1, 8 + str_len(path)>>, <<>>),
       Nd("flow_node", 10, "key", <<1, 2>>, <<1, 6>>, S_path),
       Nd("plain_scalar", 11, "", <<1, 2>>, <<1, 6>>, S_path),
       Nd("flow_node", 10, "value", <<1, 8>>, <<1, 8 + str_len(path)>>, path),
       Nd("plain_scalar", 13, "", <<1, 8>>, <<1, 8 + str_len(path)>>, path),
       Nd("block_mapping_pair", 9, "", <<2, 2>>, <<3, 23>>, <<>>),
       Nd("flow_node", 15, "key", <<2, 2>>, <<2, 10>>, S_defaults),
       Nd("plain_scalar", 16, "", <<2, 2>>, <<2, 10>>, S_defaults),
       Nd("block_node", 15, "value", <<3, 4>>, <<3, 23>>, <<>>),
       Nd("block_mapping", 18, "", <<3, 4>>, <<3, 23>>, <<>>),
       Nd("block_mapping_pair", 19, "", <<3, 4>>, <<3, 23>>, <<>>),
       Nd("flow_node", 20, "key", <<3, 4>>, <<3, 15>>, S__controller),
       Nd("plain_scalar", 21, "", <<3, 4>>, <<3, 15>>, S__controller),
       Nd("flow_node", 20, "value", <<3, 17>>, <<3, 23>>, S_NC_m),
       Nd("plain_scalar", 23, "", <<3, 17>>, <<3, 23>>, S_NC_m) >>

\* The second line of a call source, from its parts: a comment or nothing,
\* the scope, the method, the literal, and the text of a second argument or
\* nothing.
CallLine(comment, scope, name, literal, array) ==
    (IF comment = <<>> THEN <<>> ELSE comment \o <<" ">>)
    \o (IF scope = <<>> THEN <<>> ELSE scope \o S_colons)
    \o name \o <<"(", "'">> \o literal \o <<"'">>
    \o (IF array = <<>> THEN <<>> ELSE <<",", " ">> \o array) \o <<")", ";">>

\* Its tree: the columns are byte offsets.  The elements of the array are
\* left out, no rule reads them.
CallTree(comment, scope, name, literal, array) ==
    LET c == IF comment = <<>> THEN 0 ELSE 1
        s == IF scope = <<>> THEN 0 ELSE 1
        at == IF comment = <<>> THEN 0 ELSE str_len(comment) + 1
        name_at == IF scope = <<>> THEN at ELSE at + str_len(scope) + 2
        open == name_at + str_len(name)
        close == open + 3 + str_len(literal)
        last == IF array = <<>> THEN close ELSE close + 2 + str_len(array)
        quoted == <<"'">> \o literal \o <<"'">>
        call_node == 4 + c
        arguments == call_node + s + 2
    IN  << Nd("program", 0, "", <<0, 0>>, <<1, last + 2>>, <<>>),
           Nd("php_tag", 1, "", <<0, 0>>, <<0, 5>>, <<>>) >>
        \o (IF c = 1 THEN << Nd("comment", 1, "", <<1, 0>>, <<1, at - 1>>, comment) >> ELSE <<>>)
        \o << Nd("expression_statement", 1, "", <<1, at>>, <<1, last + 2>>, <<>>) >>
        \o (IF s = 1
            THEN << Nd("scoped_call_expression", 3 + c, "", <<1, at>>, <<1, last + 1>>, <<>>),
                    Nd("name", call_node, "scope", <<1, at>>, <<1, name_at - 2>>, scope),
                    Nd("name", call_node, "name", <<1, name_at>>, <<1, open>>, name) >>
            ELSE << Nd("function_call_expression", 3 + c, "", <<1, at>>, <<1, last + 1>>, <<>>),
                    Nd("name", call_node, "function", <<1, name_at>>, <<1, open>>, name) >>)
        \o << Nd("arguments", call_node, "arguments", <<1, open>>, <<1, last + 1>>,
                 <<"(">> \o quoted \o (IF array = <<>> THEN <<>> ELSE <<",", " ">> \o array)
                 \o <<")">>),
              Nd("argument", arguments, "", <<1, open + 1>>, <<1, close>>, quoted),
              Nd("string", arguments + 1, "", <<1, open + 1>>, <<1, close>>, quoted),
              Nd("string_content", arguments + 2, "", <<1, open + 2>>, <<1, close - 1>>,
                 literal) >>
        \o (IF array = <<>> THEN <<>>
            ELSE << Nd("argument", arguments, "", <<1, close + 2>>, <<1, last>>, array),
                    Nd("array_creation_expression", arguments + 4, "", <<1, close + 2>>,
                       <<1, last>>, array) >>)

S_comment_wide == <<"/", "*", " ", E_acute, " ", "*", "/">>
S_array_b == <<"[", "'", "b", "'", " ", "=", ">", " ", "1", "]">>

\*   P_call         Url::fromRoute('r.y');
\*   P_call_array   Url::fromRoute('r.y', ['b' => 1]);
\*   P_call_wide    /* é */ Url::fromRoute('r.y');
\*   P_call_create  Url::createFromRoute('r.y');
\*   P_t            t('@a %b c');
\*   P_t_bare       t('a @ :c');
\*   P_t_wide       /* é */ t('@a');
S_tr_named == <<"@", "a", " ", "%", "b", " ", "c">>
S_tr_bare == <<"a", " ", "@", " ", ":", "c">>
S_tr_a == <<"@", "a">>
CallParts ==
    [P_call |-> <<<<>>, S_Url, S_fromRoute, S_r_y, <<>>>>,
     P_call_array |-> <<<<>>, S_Url, S_fromRoute, S_r_y, S_array_b>>,
     P_call_wide |-> <<S_comment_wide, S_Url, S_fromRoute, S_r_y, <<>>>>,
     P_call_create |-> <<<<>>, S_Url, S_createFromRoute, S_r_y, <<>>>>,
     P_t |-> <<<<>>, <<>>, S_t, S_tr_named, <<>>>>,
     P_t_bare |-> <<<<>>, <<>>, S_t, S_tr_bare, <<>>>>,
     P_t_wide |-> <<S_comment_wide, <<>>, S_t, S_tr_a, <<>>>>]

RouteCallTexts == {"P_call", "P_call_array", "P_call_wide", "P_call_create"}
TranslationTexts == {"P_t", "P_t_bare", "P_t_wide"}

CallLines ==
    [c \in DOMAIN CallParts |->
        CallLine(CallParts[c][1], CallParts[c][2], CallParts[c][3], CallParts[c][4],
                 CallParts[c][5])]

CallTrees ==
    [c \in DOMAIN CallParts |->
        CallTree(CallParts[c][1], CallParts[c][2], CallParts[c][3], CallParts[c][4],
                 CallParts[c][5])]

\* A YAML source with one top-level key whose value is a mapping with the
\* entries given, one per line; an entry is <<key, value>>, and the value
\* <<>> of the last entry stands for the nested mapping _controller: N\C::m.
\*   adm:
\*     title: T
\*     defaults:
\*       _controller: N\C::m
MappingEntryLine(entry) ==
    <<" ", " ">> \o entry[1] \o <<":">> \o (IF entry[2] = <<>> THEN <<>> ELSE <<" ">> \o entry[2])

S_controller_line == S__controller \o <<":", " ">> \o S_NC_m

MappingLines(key, entries) ==
    <<key \o <<":">>>> \o [k \in 1..Len(entries) |-> MappingEntryLine(entries[k])]
    \o (IF entries # <<>> /\ entries[Len(entries)][2] = <<>>
        THEN <<<<" ", " ", " ", " ">> \o S_controller_line>>
        ELSE <<>>)

\* The end point of the source.
MappingEnd(key, entries) ==
    <<Len(MappingLines(key, entries)) - 1,
      str_len(MappingLines(key, entries)[Len(MappingLines(key, entries))])>>

\* The five nodes of the entry at that row: the pair, its key and its value.
MappingEntryNodes(at, row, entry, end) ==
    LET key_end == <<row, 2 + str_len(entry[1])>>
        value_at == <<row, 4 + str_len(entry[1])>>
        value_end == <<row, 4 + str_len(entry[1]) + str_len(entry[2])>>
    IN  IF entry[2] = <<>>
        THEN << Nd("block_mapping_pair", 9, "", <<row, 2>>, end, <<>>),
                Nd("flow_node", at, "key", <<row, 2>>, key_end, entry[1]),
                Nd("plain_scalar", at + 1, "", <<row, 2>>, key_end, entry[1]),
                Nd("block_node", at, "value", <<row + 1, 4>>, end, S_controller_line),
                Nd("block_mapping", at + 3, "", <<row + 1, 4>>, end, S_controller_line) >>
        ELSE << Nd("block_mapping_pair", 9, "", <<row, 2>>, value_end, <<>>),
                Nd("flow_node", at, "key", <<row, 2>>, key_end, entry[1]),
                Nd("plain_scalar", at + 1, "", <<row, 2>>, key_end, entry[1]),
                Nd("flow_node", at, "value", value_at, value_end, entry[2]),
                Nd("plain_scalar", at + 3, "", value_at, value_end, entry[2]) >>

MappingTree(key, entries) ==
    LET end == MappingEnd(key, entries)
        count == Len(entries)
        nested == entries # <<>> /\ entries[count][2] = <<>>
        inner == 9 + 5 * count
        row == count + 1
        text == join_lines([k \in 1..Len(MappingLines(key, entries)) - 1 |->
                               IF k = 1
                               THEN SubSeq(MappingLines(key, entries)[2], 3,
                                           Len(MappingLines(key, entries)[2]))
                               ELSE MappingLines(key, entries)[k + 1]])
    IN  << Nd("stream", 0, "", <<0, 0>>, end, <<>>),
           Nd("document", 1, "", <<0, 0>>, end, <<>>),
           Nd("block_node", 2, "", <<0, 0>>, end, <<>>),
           Nd("block_mapping", 3, "", <<0, 0>>, end, <<>>),
           Nd("block_mapping_pair", 4, "", <<0, 0>>, end, <<>>),
           Nd("flow_node", 5, "key", <<0, 0>>, <<0, str_len(key)>>, key),
           Nd("plain_scalar", 6, "", <<0, 0>>, <<0, str_len(key)>>, key),
           Nd("block_node", 5, "value", <<1, 2>>, end, text),
           Nd("block_mapping", 8, "", <<1, 2>>, end, text) >>
        \o [i \in 1..(5 * count) |->
               MappingEntryNodes(10 + 5 * ((i - 1) \div 5), ((i - 1) \div 5) + 1,
                                 entries[((i - 1) \div 5) + 1], end)[((i - 1) % 5) + 1]]
        \o (IF nested
            THEN << Nd("block_mapping_pair", inner, "", <<row, 4>>, end, <<>>),
                    Nd("flow_node", inner + 1, "key", <<row, 4>>, <<row, 15>>, S__controller),
                    Nd("plain_scalar", inner + 2, "", <<row, 4>>, <<row, 15>>, S__controller),
                    Nd("flow_node", inner + 1, "value", <<row, 17>>, end, S_NC_m),
                    Nd("plain_scalar", inner + 4, "", <<row, 17>>, end, S_NC_m) >>
            ELSE <<>>)

\* The mappings the classification is run on: every combination of a
\* title, a path, a class and defaults that are a mapping, a scalar or
\* absent, under the key adm or class.
S_T == <<"T">>
S_x_path == <<"/", "x">>
MappingEntries ==
    {(IF title THEN <<<<S_title, S_T>>>> ELSE <<>>)
     \o (IF path THEN <<<<S_path, S_x_path>>>> ELSE <<>>)
     \o (IF class THEN <<<<S_class, S_NC>>>> ELSE <<>>)
     \o (IF defaults = "map" THEN <<<<S_defaults, <<>>>>>>
         ELSE IF defaults = "scalar" THEN <<<<S_defaults, S_T>>>>
         ELSE <<>>) :
        title \in BOOLEAN, path \in BOOLEAN, class \in BOOLEAN,
        defaults \in {"map", "scalar", "none"}} \ {<<>>}

MappingKeys == {S_adm, S_class}

\* A PHP source whose second line calls a method on a receiver: on the
\* variable $f, or on the service \Drupal::service('my.svc').
\*   <?php
\*   \Drupal::service('my.svc')->setRedirect('r.y');
S_var_f == <<"$", "f">>
S_service_call == <<"\\">> \o S_Drupal_service \o S_quoted_my_svc
MemberCallLine(object, name, literal) ==
    object \o <<"-", ">">> \o name \o <<"(", "'">> \o literal \o <<"'", ")", ";">>

MemberCallTree(object, name, literal) ==
    LET s == IF object = S_var_f THEN 0 ELSE 6
        name_at == str_len(object) + 2
        open == name_at + str_len(name)
        close == open + 3 + str_len(literal)
        quoted == <<"'">> \o literal \o <<"'">>
    IN  << Nd("program", 0, "", <<0, 0>>, <<1, close + 2>>, <<>>),
           Nd("php_tag", 1, "", <<0, 0>>, <<0, 5>>, <<>>),
           Nd("expression_statement", 1, "", <<1, 0>>, <<1, close + 2>>, <<>>),
           Nd("member_call_expression", 3, "", <<1, 0>>, <<1, close + 1>>, <<>>) >>
        \o (IF object = S_var_f
            THEN << Nd("variable_name", 4, "object", <<1, 0>>, <<1, 2>>, object) >>
            ELSE << Nd("scoped_call_expression", 4, "object", <<1, 0>>, <<1, 26>>, object),
                    Nd("name", 5, "scope", <<1, 0>>, <<1, 7>>,
                       <<"\\", "D", "r", "u", "p", "a", "l">>),
                    Nd("name", 5, "name", <<1, 9>>, <<1, 16>>, S_service),
                    Nd("arguments", 5, "arguments", <<1, 16>>, <<1, 26>>, S_quoted_my_svc),
                    Nd("argument", 8, "", <<1, 17>>, <<1, 25>>, <<"'">> \o S_my_svc \o <<"'">>),
                    Nd("string", 9, "", <<1, 17>>, <<1, 25>>, <<"'">> \o S_my_svc \o <<"'">>),
                    Nd("string_content", 10, "", <<1, 18>>, <<1, 24>>, S_my_svc) >>)
        \o << Nd("name", 4, "name", <<1, name_at>>, <<1, open>>, name),
              Nd("arguments", 4, "arguments", <<1, open>>, <<1, close + 1>>,
                 <<"(">> \o quoted \o <<")">>),
              Nd("argument", 7 + s, "", <<1, open + 1>>, <<1, close>>, quoted),
              Nd("string", 8 + s, "", <<1, open + 1>>, <<1, close>>, quoted),
              Nd("string_content", 9 + s, "", <<1, open + 2>>, <<1, close - 1>>, literal) >>

\*   P_member_var      $f->setRedirect('r.y');
\*   P_member_service  \Drupal::service('my.svc')->setRedirect('r.y');
\*   P_member_from     \Drupal::service('my.svc')->fromRoute('r.y');
\*   P_member_create   \Drupal::service('my.svc')->createFromRoute('r.y');
MemberCallParts ==
    [P_member_var |-> <<S_var_f, S_setRedirect, S_r_y>>,
     P_member_service |-> <<S_service_call, S_setRedirect, S_r_y>>,
     P_member_from |-> <<S_service_call, S_fromRoute, S_r_y>>,
     P_member_create |-> <<S_service_call, S_createFromRoute, S_r_y>>]

S_function_ == <<"f", "u", "n", "c", "t", "i", "o", "n", " ">>

\* A PHP source with a comment line and a function with an empty body.
\*   <?php
\*   // Implements hook_x().
\*   function hook_x($a) {}
FunctionLines(comment, name, parameters) ==
    <<S_php_tag, comment, S_function_ \o name \o parameters \o <<" ", "{", "}">>>>

FunctionTree(comment, name, parameters) ==
    LET open == 9 + str_len(name)
        close == open + str_len(parameters)
    IN  << Nd("program", 0, "", <<0, 0>>, <<2, close + 3>>, <<>>),
           Nd("php_tag", 1, "", <<0, 0>>, <<0, 5>>, <<>>),
           Nd("comment", 1, "", <<1, 0>>, <<1, str_len(comment)>>, comment),
           Nd("function_definition", 1, "", <<2, 0>>, <<2, close + 3>>, <<>>),
           Nd("name", 4, "name", <<2, 9>>, <<2, open>>, name),
           Nd("formal_parameters", 4, "parameters", <<2, open>>, <<2, close>>, parameters),
           Nd("compound_statement", 4, "body", <<2, close + 1>>, <<2, close + 3>>,
              <<"{", "}">>) >>

\* A source with one class C, in the namespace N when namespace is not
\* empty, that declares the methods named in methods, one per line:
\*   <?php
\*   namespace N;
\*   class C {
\*     function m() {}
\*   }
S_q == <<"q">>
S_namespace_N == <<"n", "a", "m", "e", "s", "p", "a", "c", "e", " ", "N", ";">>
S_class_C_open == <<"c", "l", "a", "s", "s", " ", "C", " ", "{">>
ClassLines(namespace, methods) ==
    <<S_php_tag>> \o (IF namespace = <<>> THEN <<>> ELSE <<S_namespace_N>>)
    \o <<S_class_C_open>>
    \o [k \in 1..Len(methods) |->
           <<" ", " ">> \o S_function_ \o methods[k] \o S_parens \o <<" ", "{", "}">>]
    \o <<<<"}">>>>

\* The four nodes of the method declaration at that row, under the body node.
ClassMethodNodes(body, at, row, name) ==
    << Nd("method_declaration", body, "", <<row, 2>>, <<row, 16 + Len(name)>>, <<>>),
       Nd("name", at, "name", <<row, 11>>, <<row, 11 + Len(name)>>, name),
       Nd("formal_parameters", at, "parameters", <<row, 11 + Len(name)>>,
          <<row, 13 + Len(name)>>, S_parens),
       Nd("compound_statement", at, "body", <<row, 14 + Len(name)>>,
          <<row, 16 + Len(name)>>, <<"{", "}">>) >>

ClassTree(namespace, methods) ==
    LET n == IF namespace = <<>> THEN 0 ELSE 1
        class_node == 3 + 2 * n
        body == class_node + 2
        row == 1 + n
        last == <<row + Len(methods) + 1, 1>>
    IN  << Nd("program", 0, "", <<0, 0>>, last, <<>>),
           Nd("php_tag", 1, "", <<0, 0>>, <<0, 5>>, <<>>) >>
        \o (IF n = 1
            THEN << Nd("namespace_definition", 1, "", <<1, 0>>, <<1, 12>>, <<>>),
                    Nd("namespace_name", 3, "name", <<1, 10>>, <<1, 11>>, namespace) >>
            ELSE <<>>)
        \o << Nd("class_declaration", 1, "", <<row, 0>>, last, <<>>),
              Nd("name", class_node, "name", <<row, 6>>, <<row, 7>>, S_C),
              Nd("declaration_list", class_node, "body", <<row, 8>>, last, <<>>) >>
        \o [i \in 1..(4 * Len(methods)) |->
               ClassMethodNodes(body, body + 4 * ((i - 1) \div 4) + 1,
                                row + ((i - 1) \div 4) + 1,
                                methods[((i - 1) \div 4) + 1])[((i - 1) % 4) + 1]]

\*   P_cls_bare  class C with the method m, outside any namespace
\*   P_cls_two   class N\C with the methods m and q
\*   P_cls_dup   class N\C with the methods m, q and m again
ClassParts ==
    [P_cls_bare |-> <<<<>>, <<S_m>>>>,
     P_cls_two |-> <<S_N, <<S_m, S_q>>>>,
     P_cls_dup |-> <<S_N, <<S_m, S_q, S_m>>>>]

\* The lines of the sources, as str::lines yields them.
source_lines(content) ==
    CASE content = "Y_svc" ->
          <<<<"m", "y", ".", "s", "v", "c", ":">>,
            <<" ", " ", "c", "l", "a", "s", "s", ":", " ", "N", "\\", "C">>>>
      [] content = "P_cls" ->
          <<<<"<", "?", "p", "h", "p">>,
            <<"n", "a", "m", "e", "s", "p", "a", "c", "e", " ", "N", ";">>,
            <<"c", "l", "a", "s", "s", " ", "C", " ", "{">>,
            <<" ", " ", "/", "/", " ", "f", "o", "o", "(", ")", " ", "I", "m", "p", "l", "e",
              "m", "e", "n", "t", "s", " ", "h", "o", "o", "k", "_", "x">>,
            <<" ", " ", "f", "u", "n", "c", "t", "i", "o", "n", " ", "m", "(", ")", " ", "{",
              "}">>,
            <<"}">>>>
      [] content = "P_ref" ->
          <<<<"<", "?", "p", "h", "p", " ", "$", "c", "o", "n", "t", "a", "i", "n", "e", "r",
              "-", ">", "g", "e", "t", "(", "'", "m", "y", ".", "s", "v", "c", "'",
              ")", ";">>>>
      [] content = "P_bad" ->
          <<<<"<", "?", "p", "h", "p", " ", "/", "/", " ", "f", "o", "o", "(", ")", " ", "I",
              "m", "p", "l", "e", "m", "e", "n", "t", "s", " ", "h", "o", "o", "k",
              "_", "x">>>>
      [] content = "T_txt" ->
          <<<<"p", "l", "a", "i", "n", " ", "t", "e", "x", "t">>>>
      [] content = "T_new" ->
          <<<<"n", "e", "w", " ", "t", "e", "x", "t">>>>
      [] content = "Y_rt" ->
          <<<<"r", ".", "x", ":">>,
            <<" ", " ", "p", "a", "t", "h", ":", " ", "/", "x", "/", "{", "a", "}">>,
            <<" ", " ", "d", "e", "f", "a", "u", "l", "t", "s", ":">>,
            <<" ", " ", " ", " ", "_", "c", "o", "n", "t", "r", "o", "l", "l", "e", "r", ":",
              " ", "N", "\\", "C", ":", ":", "m">>>>
      [] content = "Y_perm" ->
          <<<<"a", "d", "m", ":">>,
            <<" ", " ", "t", "i", "t", "l", "e", ":", " ", "T">>>>
      [] content = "P_cls0" ->
          <<<<"<", "?", "p", "h", "p">>,
            <<"n", "a", "m", "e", "s", "p", "a", "c", "e", " ", "N", ";">>,
            <<"c", "l", "a", "s", "s", " ", "C", " ", "{", "}">>>>
      [] content = "P_api" ->
          <<<<"<", "?", "p", "h", "p">>,
            <<"/", "/", " ", "I", "m", "p", "l", "e", "m", "e", "n", "t", "s", " ", "h", "o",
              "o", "k", "_", "x", "(", ")", ".">>,
            <<"f", "u", "n", "c", "t", "i", "o", "n", " ", "h", "o", "o", "k", "_", "x", "(",
              "$", "a", ")", " ", "{", "}">>,
            <<"U", "r", "l", ":", ":", "f", "r", "o", "m", "R", "o", "u", "t", "e", "(", "'",
              "r", ".", "x", "'", ")", ";">>,
            <<"\\", "D", "r", "u", "p", "a", "l", ":", ":", "s", "e", "r", "v", "i", "c", "e",
              "(", "'", "m", "y", ".", "s", "v", "c", "'", ")", "-", ">", "m", "(",
              ")", ";">>>>
      [] content = "Y_rt2" -> RouteLines(S_r_y, S_path_y_a_b)
      [] content = "Y_rt0" -> RouteLines(S_r_z, S_path_z)
      [] content \in DOMAIN CallLines -> <<S_php_tag, CallLines[content]>>
      [] content \in DOMAIN MemberCallParts ->
          <<S_php_tag, MemberCallLine(MemberCallParts[content][1], MemberCallParts[content][2],
                                      MemberCallParts[content][3])>>
      [] content \in DOMAIN ClassParts ->
          ClassLines(ClassParts[content][1], ClassParts[content][2])
      [] OTHER -> <<>>

\* document.content.lines().nth(line).unwrap_or("")
nth_line(document, line) ==
    IF line < Len(source_lines(document.content))
    THEN source_lines(document.content)[line + 1]
    ELSE <<>>

\* parser::get_tree / YamlParser::get_tree on the model's sources.
get_tree(file_type, content) ==
    IF file_type = "Yaml"
    THEN (IF content = "Y_svc" THEN Tree_Y_svc
          ELSE IF content = "Y_rt" THEN Tree_Y_rt
          ELSE IF content = "Y_perm" THEN Tree_Y_perm
          ELSE IF content = "Y_rt2" THEN RouteTree(S_r_y, S_path_y_a_b)
          ELSE IF content = "Y_rt0" THEN RouteTree(S_r_z, S_path_z)
          ELSE Tree_Y_empty)
    ELSE (IF content = "P_ref" THEN Tree_P_ref
          ELSE IF content = "P_cls" THEN Tree_P_cls
          ELSE IF content = "P_api" THEN Tree_P_api
          ELSE IF content = "P_cls0" THEN Tree_P_cls0
          ELSE IF content \in DOMAIN CallTrees THEN CallTrees[content]
          ELSE IF content \in DOMAIN MemberCallParts
          THEN MemberCallTree(MemberCallParts[content][1], MemberCallParts[content][2],
                              MemberCallParts[content][3])
          ELSE IF content \in DOMAIN ClassParts
          THEN ClassTree(ClassParts[content][1], ClassParts[content][2])
          ELSE Tree_P_bad)

(***************************************************************************)
(* document_store/document.rs                                              *)
(***************************************************************************)
\* The classification by a suffix found anywhere in the uri.
uri_to_file_type_by_contains(uri) ==
    IF str_contains(uri, S_yml) \/ str_contains(uri, S_yaml) THEN "Yaml"
    ELSE IF \/ str_contains(uri, S_php) \/ str_contains(uri, S_module)
            \/ str_contains(uri, S_theme) \/ str_contains(uri, S_install)
    THEN "Php"
    ELSE "Unknown"

\* uri_to_file_type
uri_to_file_type(uri) ==
    IF ends_with(uri, S_yml) \/ ends_with(uri, S_yaml) THEN "Yaml"
    ELSE IF \/ ends_with(uri, S_php) \/ ends_with(uri, S_module)
            \/ ends_with(uri, S_theme) \/ ends_with(uri, S_install)
    THEN "Php"
    ELSE "Unknown"

\* Document::new
Document_new(uri, content) ==
    [file_type |-> uri_to_file_type(uri), uri |-> uri, tokens |-> <<>>, content |-> content]

\* The extraction that falls back to the PHP extractor for a file of unknown
\* type whose text opens with a PHP tag.
get_tokens_sniffing(file_type, content, uri) ==
    IF file_type = "Unknown" /\ content \notin {"P_cls", "P_cls0"} THEN Some(<<>>)
    ELSE parse_nodes(IF file_type = "Unknown" THEN "Php" ELSE file_type,
                     get_tree(IF file_type = "Unknown" THEN "Php" ELSE file_type, content),
                     uri, <<1>>, 1, <<>>, <<>>)

\* PhpParser::get_tokens / YamlParser::get_tokens: Some(tokens), or Panic; an
\* unknown file type has no extractor and gets no tokens.
get_tokens(file_type, content, uri) ==
    IF file_type = "Unknown" THEN Some(<<>>)
    ELSE parse_nodes(file_type, get_tree(file_type, content), uri, <<1>>, 1, <<>>, <<>>)

\* `self.tokens = ...` of Document::parse.
set_tokens(document, tokens) ==
    IF IsPanic(tokens) THEN Panic ELSE Some([document EXCEPT !.tokens = tokens.val])

\* Document::parse: Some(the document with its tokens replaced), or Panic.
\* Document::parse without the parse: the tokens stay as they were.
Document_parse_skipped(document) == Some(document)

Document_parse(document) ==
    set_tokens(document, get_tokens(document.file_type, document.content, document.uri))

\* Document::set_content
Document_set_content(document, content) == [document EXCEPT !.content = content]

\* Characters of the model's texts that RFC 3986 allows nowhere in a URI.
UriForbidden == {" ", "<", ">", "\\", "^", "{", "|", "}"}

\* Document::get_uri: Uri::from_str(&self.uri).ok(), None when the stored
\* string is not a URI.
Document_get_uri(document) ==
    IF \E k \in 1..Len(document.uri) : document.uri[k] \in UriForbidden
    THEN None
    ELSE Some(document.uri)

\* Document::get_token_under_cursor: Some(token), None, or Panic.
get_token_under_cursor(document, position) ==
    IF document.file_type = "Unknown" THEN None
    ELSE get_token_at_position(document.file_type,
                               get_tree(document.file_type, document.content),
                               document.uri, position)

(***************************************************************************)
(* document_store/mod.rs: the store is a map uri -> Document.              *)
(***************************************************************************)
\* HashMap::insert
map_insert(documents, uri, document) ==
    [u \in (DOMAIN documents) \cup {uri} |-> IF u = uri THEN document ELSE documents[u]]

\* add_document that keeps a document the store already holds.
add_document_if_absent(documents, uri, text) ==
    IF uri \in DOMAIN documents THEN documents
    ELSE map_insert(documents, uri, Document_new(uri, text))

\* DocumentStore::add_document, up to the insertion; document.parse() follows
\* as the next step under the same lock.
add_document(documents, uri, text) == map_insert(documents, uri, Document_new(uri, text))

\* The for loop of change_document: every change replaces the content.
RECURSIVE set_contents(_, _)
set_contents(document, changes) ==
    IF changes = <<>> THEN document
    ELSE set_contents(Document_set_content(document, Head(changes)), Tail(changes))

\* change_document without the refusals: every change is applied in turn, and
\* a document is created for a uri the store does not hold.
change_document_unguarded(documents, uri, changes) ==
    [outcome |-> "changed",
     documents |-> map_insert(documents, uri,
                       set_contents(IF uri \in DOMAIN documents THEN documents[uri]
                                    ELSE Document_new(uri, ""), changes))]

\* DocumentStore::change_document, up to document.parse(): "refused" when the
\* list has more than one change, "unknown" when the uri is not in the store.
change_document(documents, uri, changes) ==
    IF Len(changes) > 1 THEN [outcome |-> "refused", documents |-> documents]
    ELSE IF uri \notin DOMAIN documents THEN [outcome |-> "unknown", documents |-> documents]
    ELSE [outcome |-> "changed",
          documents |-> [documents EXCEPT ![uri] = set_contents(documents[uri], changes)]]

\* The lookup with a comparison that folds the case of ASCII letters.
UpperCase == <<"A", "B", "C", "D", "E", "F", "G", "H", "I", "J", "K", "L", "M",
               "N", "O", "P", "Q", "R", "S", "T", "U", "V", "W", "X", "Y", "Z">>
LowerCase == <<"a", "b", "c", "d", "e", "f", "g", "h", "i", "j", "k", "l", "m",
               "n", "o", "p", "q", "r", "s", "t", "u", "v", "w", "x", "y", "z">>
to_ascii_lowercase(text) ==
    [k \in 1..Len(text) |->
        IF \E l \in 1..26 : UpperCase[l] = text[k]
        THEN LowerCase[CHOOSE l \in 1..26 : UpperCase[l] = text[k]]
        ELSE text[k]]
find_token_ignoring_case(document, kind, name) ==
    LET hits == {i \in 1..Len(document.tokens) :
                    /\ document.tokens[i].data.kind = kind
                    /\ to_ascii_lowercase(document.tokens[i].data.name)
                           = to_ascii_lowercase(name)}
    IN  IF hits = {} THEN 0 ELSE SetMin(hits)

\* The first token of a document that is a `kind` named `name`, 0 when none.
find_token(document, kind, name) ==
    LET hits == {i \in 1..Len(document.tokens) :
                    /\ document.tokens[i].data.kind = kind
                    /\ document.tokens[i].data.name = name}
    IN  IF hits = {} THEN 0 ELSE SetMin(hits)

\* The typed queries.  find_map runs over the documents of one file type in
\* the HashMap's iteration order, which is not fixed: the result is any
\* document that holds a match, with the first match in it.  The set is empty
\* when the query returns None.
get_definition(documents, file_type, kind, name) ==
    {[uri |-> u, token |-> documents[u].tokens[find_token(documents[u], kind, name)]] :
        u \in {v \in DOMAIN documents :
                  /\ documents[v].file_type = file_type
                  /\ find_token(documents[v], kind, name) # 0}}

get_service_definition(documents, service_name) ==
    get_definition(documents, "Yaml", "DrupalServiceDefinition", service_name)

get_route_definition(documents, route_name) ==
    get_definition(documents, "Yaml", "DrupalRouteDefinition", route_name)

get_class_definition(documents, class_name) ==
    get_definition(documents, "Php", "PhpClassDefinition", class_name)

get_hook_definition(documents, hook_name) ==
    get_definition(documents, "Php", "DrupalHookDefinition", hook_name)

\* Called by the handlers; its body is not part of the sources at hand.
get_permission_definition(documents, permission_name) ==
    get_definition(documents, "Yaml", "DrupalPermissionDefinition", permission_name)

\* An Option<(&Document, &Token)> for each possible result of a query.
as_options(found) == IF found = {} THEN {None} ELSE {Some(f) : f \in found}

\* The lookup that takes the method from any class definition of that name.
get_method_definition_in_any_class(documents, method) ==
    IF IsNone(method.class_name) THEN {None}
    ELSE LET found == {c \in get_class_definition(documents, method.class_name.val) :
                          method.name \in DOMAIN c.token.data.methods}
         IN  IF found = {} THEN {None}
             ELSE {Some([uri |-> c.uri, token |-> c.token.data.methods[method.name]]) :
                      c \in found}

\* DocumentStore::get_method_definition: the class is whichever document
\* get_class_definition lands on; the method is looked up in that one only.
get_method_definition(documents, method) ==
    IF IsNone(method.class_name) THEN {None}
    ELSE LET classes == get_class_definition(documents, method.class_name.val)
         IN  IF classes = {} THEN {None}
             ELSE {IF method.name \in DOMAIN c.token.data.methods
                   THEN Some([uri |-> c.uri, token |-> c.token.data.methods[method.name]])
                   ELSE None : c \in classes}

(***************************************************************************)
(* documentation/mod.rs and the definition handler's lookup.               *)
(***************************************************************************)
\* &source_document.content[token.range.start_byte..token.range.end_byte]
source_slice(documents, found) ==
    [content |-> documents[found.uri].content, range |-> found.token.range]

reference_documentation(documents, template, found) ==
    IF found = {} THEN {None}
    ELSE {IF IsNone(Document_get_uri(documents[f.uri])) THEN None
          ELSE Some([template |-> template, name |-> f.token.data.name,
                     uri |-> Document_get_uri(documents[f.uri]).val,
                     definition |-> source_slice(documents, f)]) : f \in found}

\* get_documentation_for_token: the values it can return.
get_documentation_for_token(documents, token) ==
    LET data == token.data
    IN  CASE data.kind = "PhpClassReference" ->
                 {Some([template |-> "CLASS_REFERENCE", class_name |-> data.name])}
          [] data.kind = "PhpMethodReference" ->
                 {Some([template |-> "PHP Method reference",
                        class |-> data.class_name, method |-> data.name])}
          [] data.kind = "DrupalRouteReference" ->
                 reference_documentation(documents, "ROUTE_REFERENCE",
                                         get_route_definition(documents, data.name))
          [] data.kind = "DrupalRouteDefinition" ->
                 {Some([template |-> "ROUTE_DEFINITION", name |-> data.name,
                        path |-> data.path])}
          [] data.kind = "DrupalServiceReference" ->
                 reference_documentation(documents, "SERVICE_REFERENCE",
                                         get_service_definition(documents, data.name))
          [] data.kind = "DrupalServiceDefinition" ->
                 {Some([template |-> "SERVICE_DEFINITION", name |-> data.name,
                        class |-> Some(data.class)])}
          [] data.kind = "DrupalHookReference" ->
                 reference_documentation(documents, "HOOK_REFERENCE",
                                         get_hook_definition(documents, data.name))
          [] data.kind = "DrupalHookDefinition" ->
                 {Some([template |-> "HOOK_DEFINITION", name |-> data.name,
                        parameters |-> IF IsSome(data.parameters)
                                       THEN data.parameters.val ELSE <<>>])}
          [] data.kind = "DrupalPermissionReference" ->
                 reference_documentation(documents, "PERMISSION_REFERENCE",
                                         get_permission_definition(documents, data.name))
          [] data.kind = "DrupalPermissionDefinition" ->
                 {Some([template |-> "PERMISSION_DEFINITION", name |-> data.name,
                        title |-> data.title])}
          [] OTHER -> {None}

\* The token kinds for which get_documentation_for_token takes the store lock.
\* The rendering that reads the store for every token it has a text for.
documentation_locks_for_definitions(token) ==
    token.data.kind \in {"DrupalRouteReference", "DrupalServiceReference",
                         "DrupalHookReference", "DrupalPermissionReference",
                         "DrupalRouteDefinition", "DrupalServiceDefinition",
                         "DrupalHookDefinition", "DrupalPermissionDefinition"}

documentation_locks(token) ==
    token.data.kind \in {"DrupalRouteReference", "DrupalServiceReference",
                         "DrupalHookReference", "DrupalPermissionReference"}

\* provide_definition_for_token: the values it can return.
provide_definition_for_token(documents, token) ==
    LET data == token.data
        found == CASE data.kind = "PhpClassReference" ->
                          as_options(get_class_definition(documents, data.name))
                   [] data.kind = "PhpMethodReference" ->
                          get_method_definition(documents, data)
                   [] data.kind = "DrupalServiceReference" ->
                          as_options(get_service_definition(documents, data.name))
                   [] data.kind = "DrupalRouteReference" ->
                          as_options(get_route_definition(documents, data.name))
                   [] data.kind = "DrupalHookReference" ->
                          as_options(get_hook_definition(documents, data.name))
                   [] data.kind = "DrupalPermissionReference" ->
                          as_options(get_permission_definition(documents, data.name))
                   [] OTHER -> {None}
    IN  {IF IsNone(f) \/ IsNone(Document_get_uri(documents[f.val.uri])) THEN None
         ELSE Some([uri |-> Document_get_uri(documents[f.val.uri]).val,
                    range |-> f.val.token.range]) : f \in found}

(***************************************************************************)
(* The workspace on disk, the editor's documents and the messages.         *)
(***************************************************************************)
Path_svc == <<"/", "a", ".", "s", "e", "r", "v", "i", "c", "e", "s", ".", "y", "m", "l">>
Path_php == <<"/", "s", "r", "c", "/", "C", ".", "p", "h", "p">>
Path_txt == <<"/", "n", ".", "t", "x", "t">>
S_services_yml == <<".", "s", "e", "r", "v", "i", "c", "e", "s", ".", "y", "m", "l">>
S_routing_yml == <<".", "r", "o", "u", "t", "i", "n", "g", ".", "y", "m", "l">>
S_dir_src == <<"/", "s", "r", "c", "/">>
S_dir_core_lib == <<"/", "c", "o", "r", "e", "/", "l", "i", "b", "/">>
S_Interface_php == <<"I", "n", "t", "e", "r", "f", "a", "c", "e", ".", "p", "h", "p">>
S_dir_Plugin == <<"/", "P", "l", "u", "g", "i", "n", "/">>
S_dir_vendor == <<"/", "v", "e", "n", "d", "o", "r", "/">>
S_dir_node_modules == <<"/", "n", "o", "d", "e", "_", "m", "o", "d", "u", "l", "e", "s", "/">>
S_dir_libraries == <<"/", "l", "i", "b", "r", "a", "r", "i", "e", "s", "/">>

\* format!("file://{}", path)
file_uri(path) == S_file \o path

U_svc == file_uri(Path_svc)
U_php == file_uri(Path_php)
U_txt == file_uri(Path_txt)
Uris == {U_svc, U_php, U_txt}

\* The texts an editor may send for a uri.
Texts(uri) ==
    IF uri = U_svc THEN {"Y_svc", "Y_empty"}
    ELSE IF uri = U_php THEN {"P_cls", "P_ref", "P_bad"}
    ELSE {"T_txt"}

MaxChanges == 2
MaxId == 2

RECURSIVE SeqsOf(_, _)
SeqsOf(S, n) ==
    IF n = 0 THEN {<<>>}
    ELSE LET shorter == SeqsOf(S, n - 1)
         IN  shorter \cup {Append(q, x) : q \in {r \in shorter : Len(r) = n - 1}, x \in S}

Position(line, character) == [line |-> line, character |-> character]
Positions == {Position(0, 2), Position(0, 25), Position(1, 10), Position(3, 5), Position(4, 11)}

Msg(type, method, ok, id, uri, text, changes, position) ==
    [type |-> type, method |-> method, ok |-> ok, id |-> id, uri |-> uri,
     text |-> text, changes |-> changes, position |-> position]

NoMsg == Msg("None", "", TRUE, 0, <<>>, "", <<>>, Position(0, 0))

Notification(method, ok, uri, text, changes) ==
    Msg("Notification", method, ok, 0, uri, text, changes, Position(0, 0))

Request(method, ok, id, uri, position) ==
    Msg("Request", method, ok, id, uri, "", <<>>, position)

CursorMethods == {"textDocument/hover", "textDocument/codeAction",
                  "textDocument/definition", "textDocument/completion"}

\* ok = FALSE stands for params that serde_json cannot turn into the
\* handler's params type.
Messages ==
    UNION {{Notification("textDocument/didOpen", TRUE, u, t, <<>>) : t \in Texts(u)} : u \in Uris}
    \cup UNION {{Notification("textDocument/didChange", TRUE, u, "", cs) :
                    cs \in SeqsOf(Texts(u), MaxChanges)} : u \in Uris}
    \cup {Notification(method, FALSE, <<>>, "", <<>>) :
             method \in {"textDocument/didOpen", "textDocument/didChange"}}
    \cup {Notification(method, TRUE, u, "", <<>>) :
             method \in {"textDocument/didClose", "textDocument/didSave"}, u \in Uris}
    \cup {Notification(method, TRUE, <<>>, "", <<>>) : method \in {"exit", "initialized"}}
    \cup {Request(method, TRUE, id, u, p) :
             method \in CursorMethods, id \in 1..MaxId, u \in Uris, p \in Positions}
    \cup {Request(method, FALSE, id, <<>>, Position(0, 0)) :
             method \in CursorMethods, id \in 1..MaxId}
    \cup {Request(method, TRUE, id, <<>>, Position(0, 0)) :
             method \in {"shutdown", "workspace/symbol"}, id \in 1..MaxId}
    \cup {Msg("Response", "", TRUE, id, <<>>, "", <<>>, Position(0, 0)) : id \in 1..MaxId}

\* A file on disk: its text, and whether fs::read_to_string can read it.
File(readable, content) == [readable |-> readable, content |-> content]

Workspaces ==
    { [p \in {Path_svc, Path_php, Path_txt} |->
          IF p = Path_svc THEN File(TRUE, "Y_svc")
          ELSE IF p = Path_php THEN php
          ELSE File(TRUE, "T_txt")] :
      php \in {File(TRUE, "P_cls"), File(FALSE, "P_cls")} }

\* No workspace folder in the initialize params: nothing is scanned.
NoWorkspace == [p \in {} |-> File(TRUE, "")]

\* The overrides of initialize_document_store: the last glob that matches
\* decides, the "!" globs come last, and a path no glob matches is skipped.
scan_matches(path) ==
    LET whitelisted == \/ ends_with(path, S_services_yml)
                       \/ ends_with(path, S_routing_yml)
                       \/ (str_contains(path, S_dir_src) /\ ends_with(path, S_php))
                       \/ (str_contains(path, S_dir_core_lib) /\ ends_with(path, S_php))
        ignored == \/ (str_contains(path, S_dir_src) /\ ends_with(path, S_Interface_php))
                   \/ (str_contains(path, S_dir_core_lib) /\ ends_with(path, S_Interface_php))
                   \/ (str_contains(path, S_dir_Plugin) /\ ends_with(path, S_php))
                   \/ str_contains(path, S_dir_vendor)
                   \/ str_contains(path, S_dir_node_modules)
                   \/ str_contains(path, S_dir_libraries)
    IN  whitelisted /\ ~ignored

(***************************************************************************)
(* server/handlers: what the code-action and completion handlers compute.  *)
(***************************************************************************)
\* \w of the regex crate, over the characters the texts here are made of.
WordChars ==
    {"a", "b", "c", "d", "e", "f", "g", "h", "i", "j", "k", "l", "m", "n", "o", "p",
     "q", "r", "s", "t", "u", "v", "w", "x", "y", "z", "A", "B", "C", "D", "E", "F",
     "G", "H", "I", "J", "K", "L", "M", "N", "O", "P", "Q", "R", "S", "T", "U", "V",
     "W", "X", "Y", "Z", "0", "1", "2", "3", "4", "5", "6", "7", "8", "9", "_"}

RECURSIVE word_end(_, _)
word_end(text, i) ==
    IF i <= Len(text) /\ text[i] \in WordChars THEN word_end(text, i + 1) ELSE i

\* captures_iter of (?<placeholder>[@%:]\w*): the matches from index i on.
RECURSIVE placeholder_captures(_, _)
placeholder_captures(text, i) ==
    IF i > Len(text) THEN <<>>
    ELSE IF text[i] \in {"@", "%", ":"}
    THEN LET e == word_end(text, i + 1)
         IN  <<SubSeq(text, i, e - 1)>> \o placeholder_captures(text, e)
    ELSE placeholder_captures(text, i + 1)

RECURSIVE join_with(_, _)
join_with(parts, separator) ==
    IF parts = <<>> THEN <<>>
    ELSE IF Len(parts) = 1 THEN parts[1]
    ELSE parts[1] \o separator \o join_with(Tail(parts), separator)

\* format!(", [{}]", ...) over format!("'{}' => ''", placeholder)
arguments_string(string) ==
    LET captures == placeholder_captures(string, 1)
        entries == [k \in 1..Len(captures) |->
                       <<"'">> \o captures[k] \o <<"'", " ", "=", ">", " ", "'", "'">>]
    IN  <<",", " ", "[">> \o join_with(entries, <<",", " ">>) \o <<"]">>

\* The Vec<CodeAction> of handle_text_document_code_action.
code_actions(uri, token) ==
    IF IsSome(token) /\ token.val.data.kind = "DrupalTranslationString"
    THEN <<[title |-> "Add translations placeholders",
            uri |-> uri,
            line |-> token.val.range.end_point[1],
            character |-> token.val.range.end_point[2] - 1,
            new_text |-> arguments_string(token.val.data.string)]>>
    ELSE <<>>

\* uri.split('/').last()?.split_once('.')?
split_file_name(uri) ==
    LET slashes == {i \in 1..Len(uri) : uri[i] = "/"}
        from == IF slashes = {} THEN 1 ELSE (CHOOSE i \in slashes : \A j \in slashes : j <= i) + 1
        dots == {i \in from..Len(uri) : uri[i] = "."}
    IN  IF dots = {} THEN None
        ELSE Some([file_name |-> SubSeq(uri, from, SetMin(dots) - 1),
                   extension |-> SubSeq(uri, SetMin(dots) + 1, Len(uri))])

FixedSnippets ==
    {<<"b", "a", "t", "c", "h">>,
     <<"i", "h", "d", "o", "c">>,
     <<"e", "n", "s", "u", "r", "e", "-", "i", "n", "s", "t", "a", "n", "c", "e", "o", "f">>,
     <<"e", "n", "t", "i", "t", "y", "-", "s", "t", "o", "r", "a", "g", "e">>,
     <<"e", "n", "t", "i", "t", "y", "-", "l", "o", "a", "d">>,
     <<"e", "n", "t", "i", "t", "y", "-", "q", "u", "e", "r", "y">>,
     <<"t", "i", "t", "l", "e">>,
     <<"d", "e", "s", "c", "r", "i", "p", "t", "i", "o", "n">>,
     <<"a", "t", "t", "r", "i", "b", "u", "t", "e", "s">>,
     <<"a", "t", "t", "r", "i", "b", "u", "t", "e", "s", "-", "c", "l", "a", "s", "s">>,
     <<"a", "t", "t", "r", "i", "b", "u", "t", "e", "s", "-", "i", "d">>,
     <<"t", "y", "p", "e", "_", "h", "t", "m", "l", "_", "t", "a", "g">>,
     <<"t", "y", "p", "e", "_", "d", "e", "t", "a", "i", "l", "s">>,
     <<"c", "r", "e", "a", "t", "e">>,
     <<"c", "r", "e", "a", "t", "e", "-", "p", "l", "u", "g", "i", "n">>}

S_render_ == <<"r", "e", "n", "d", "e", "r", "-">>
S_form_ == <<"f", "o", "r", "m", "-">>

\* Every token of every document of the store.
all_tokens(documents) ==
    UNION {{documents[u].tokens[i] : i \in 1..Len(documents[u].tokens)} : u \in DOMAIN documents}

\* String::replace("$", "\\$")
RECURSIVE escape_dollar(_)
escape_dollar(text) ==
    IF text = <<>> THEN <<>>
    ELSE (IF Head(text) = "$" THEN <<"\\", "$">> ELSE <<Head(text)>>) \o escape_dollar(Tail(text))

\* get_global_snippets: the fixed snippets, and one for every form or render
\* element class of the store that carries a usage example.
get_global_snippets(documents) ==
    {[label |-> name, kind |-> "SNIPPET", body |-> "fixed"] : name \in FixedSnippets}
    \cup
    {[label |-> (IF t.data.attribute.val.plugin_type = "FormElement" THEN S_form_ ELSE S_render_)
                    \o t.data.attribute.val.plugin_id,
      kind |-> "SNIPPET",
      insert_text |-> escape_dollar(t.data.attribute.val.usage_example.val)] :
        t \in {c \in all_tokens(documents) :
                  /\ c.data.kind = "PhpClassDefinition"
                  /\ IsSome(c.data.attribute)
                  /\ c.data.attribute.val.plugin_type \in {"RenderElement", "FormElement"}
                  /\ IsSome(c.data.attribute.val.usage_example)}}

\* The documentation of a definition token: get_documentation_for_token takes
\* no lock for these, and has one result.
definition_documentation(documents, token) ==
    CHOOSE d \in get_documentation_for_token(documents, token) : TRUE

reference_item(documents, token, label, description) ==
    [label |-> label, description |-> description, kind |-> "REFERENCE",
     documentation |-> definition_documentation(documents, token)]

\* The places of the store's tokens, as the two nested for_each of the
\* handler visit them.
token_places(documents) ==
    UNION {{<<u, i>> : i \in 1..Len(documents[u].tokens)} : u \in DOMAIN documents}

token_at(documents, place) == documents[place[1]].tokens[place[2]]

places_of_kind(documents, kind) ==
    {p \in token_places(documents) : token_at(documents, p).data.kind = kind}

\* completion_items.push(item) once for every place: the pushed items as a
\* bag, the order of a HashMap's values being arbitrary.
pushed(places, item(_)) ==
    [x \in {item(p) : p \in places} |-> Cardinality({p \in places : item(p) = x})]

definition_items(documents, kind, description) ==
    pushed(places_of_kind(documents, kind),
           LAMBDA p : reference_item(documents, token_at(documents, p),
                                     token_at(documents, p).data.name, description))

S_fromRoute_open == <<"f", "r", "o", "m", "R", "o", "u", "t", "e", "(", "'">>

\* captures of (?<method>.*fromRoute\(')(?<name>[^']*)'(?<params>, \[.*\])?
\* on a line: the greedy .* ends at the last fromRoute(' that a quote follows,
\* the name runs to the next quote, and params, when ", [" follows the quote,
\* runs to the last "]" of the line.  None when the line does not match.
route_captures(line) ==
    LET opens == {i \in 1..Len(line) :
                     /\ MatchesAt(line, S_fromRoute_open, i)
                     /\ \E k \in (i + 11)..Len(line) : line[k] = "'"}
        from == SetMax(opens) + 11
        quote == SetMin({k \in from..Len(line) : line[k] = "'"})
        closers == {k \in (quote + 4)..Len(line) : line[k] = "]"}
    IN  IF opens = {} THEN None
        ELSE Some([method |-> SubSeq(line, 1, from - 1),
                   name |-> SubSeq(line, from, quote - 1),
                   params |-> IF MatchesAt(line, <<",", " ", "[">>, quote + 1) /\ closers # {}
                              THEN Some(SubSeq(line, quote + 1, SetMax(closers)))
                              ELSE None])

\* DrupalRoute::get_route_parameters: captures_iter of \{([^{}]+)\} on the
\* path, from index i on.
RECURSIVE get_route_parameters(_, _)
get_route_parameters(path, i) ==
    IF i > Len(path) THEN <<>>
    ELSE LET braces == {k \in (i + 1)..Len(path) : path[k] \in {"{", "}"}}
             close == IF braces = {} THEN 0 ELSE SetMin(braces)
         IN  IF path[i] = "{" /\ close > i + 1 /\ path[close] = "}"
             THEN <<SubSeq(path, i + 1, close - 1)>> \o get_route_parameters(path, close + 1)
             ELSE get_route_parameters(path, i + 1)

\* format!(", [{}]", ...) over format!("'{}' => ${}", p, p), "" for no
\* parameter.
route_parameters_text(route_parameters) ==
    IF route_parameters = <<>> THEN <<>>
    ELSE <<",", " ", "[">>
         \o join_with([k \in 1..Len(route_parameters) |->
                          <<"'">> \o route_parameters[k] \o <<"'", " ", "=", ">", " ", "$">>
                          \o route_parameters[k]],
                      <<",", " ">>)
         \o <<"]">>

TextEdit(line, start, end, new_text) ==
    [line |-> line, start |-> start, end |-> end, new_text |-> new_text]

\* The item pushed for a route definition: with the edits when the line
\* matched (method_len > 0).
route_item(documents, token, captures, position) ==
    LET method_len == IF IsSome(captures) THEN str_len(captures.val.method) ELSE 0
        name_len == IF IsSome(captures) THEN str_len(captures.val.name) ELSE 0
        params_len == IF IsSome(captures) /\ IsSome(captures.val.params)
                      THEN str_len(captures.val.params.val) ELSE 0
    IN  [label |-> token.data.name, description |-> "Route", kind |-> "REFERENCE",
         documentation |-> definition_documentation(documents, token),
         text_edit |-> IF method_len > 0
                       THEN Some(TextEdit(position.line, method_len, position.character,
                                          token.data.name))
                       ELSE None,
         additional_text_edits |->
             IF method_len > 0
             THEN Some(<<TextEdit(position.line, method_len + name_len + 1,
                                  method_len + name_len + 1 + params_len,
                                  route_parameters_text(get_route_parameters(token.data.path, 1)))>>)
             ELSE None]

route_items(documents, current_line, position) ==
    pushed(places_of_kind(documents, "DrupalRouteDefinition"),
           LAMBDA p : route_item(documents, token_at(documents, p),
                                 route_captures(current_line), position))

\* PhpMethod::get_class: the classes it can return, {None} when none.
PhpMethod_get_class(documents, method) ==
    IF IsSome(method.class_name) THEN {Some(method.class_name.val)}
    ELSE IF IsSome(method.service_name)
    THEN LET found == get_service_definition(documents, method.service_name.val)
         IN  IF found = {} THEN {None} ELSE {Some(f.token.data.class) : f \in found}
    ELSE {None}

\* The items handle_text_document_completion adds to the global snippets, for
\* the token before the cursor: the possible outcomes, each Some(items) or
\* None when a `?` leaves the handler.
completion_items(documents, token, file, current_line, position) ==
    IF IsSome(token)
    THEN LET data == token.val.data
         IN  CASE data.kind = "DrupalRouteReference" ->
                      {Some(route_items(documents, current_line, position))}
               [] data.kind = "DrupalServiceReference" ->
                      {Some(definition_items(documents, "DrupalServiceDefinition", "Service"))}
               [] data.kind = "PhpMethodReference" ->
                      UNION {IF IsNone(class) THEN {None}
                             ELSE LET found == get_class_definition(documents, class.val)
                                  IN  IF found = {} THEN {Some(EmptyBag)}
                                      ELSE {Some(SetToBag({[label |-> name, description |-> "Method",
                                                   kind |-> "REFERENCE", documentation |-> None] :
                                                     name \in DOMAIN f.token.data.methods})) :
                                               f \in found} :
                                class \in PhpMethod_get_class(documents, data)}
               [] data.kind = "DrupalPermissionReference" ->
                      {Some(definition_items(documents, "DrupalPermissionDefinition", "Permission"))}
               [] data.kind = "DrupalPluginReference" ->
                      {Some(pushed({p \in places_of_kind(documents, "PhpClassDefinition") :
                                       /\ IsSome(token_at(documents, p).data.attribute)
                                       /\ token_at(documents, p).data.attribute.val.plugin_type
                                              = data.plugin_type},
                                   LAMBDA p : reference_item(
                                       documents, token_at(documents, p),
                                       token_at(documents, p).data.attribute.val.plugin_id,
                                       token_at(documents, p).data.attribute.val.plugin_type)))}
               [] OTHER -> {Some(EmptyBag)}
    ELSE IF file.extension \in {S_module, S_theme}
    THEN {Some(pushed(places_of_kind(documents, "DrupalHookDefinition"),
                      LAMBDA p : [label |-> token_at(documents, p).data.name,
                                  description |-> "hook", kind |-> "SNIPPET",
                                  file_name |-> file.file_name,
                                  parameters |-> token_at(documents, p).data.parameters,
                                  documentation |->
                                      definition_documentation(documents, token_at(documents, p))]))}
    ELSE {Some(EmptyBag)}

(***************************************************************************)
(* The responses of the server.                                            *)
(***************************************************************************)
Response(id, result, error) == [id |-> id, result |-> result, error |-> error]

Null == [json |-> "null"]

\* A response that leaves the result out instead of sending null.
empty_response(id) == Response(id, None, None)

\* The null response handle_request builds when a handler returns None.
null_response(id) == Response(id, Some(Null), None)

\* get_response_error
get_response_error(id, code) == Response(id, None, Some([code |-> code]))

\* The responses handle_text_document_hover can end in for a resolved token.
hover_responses(documents, id, token) ==
    IF IsNone(token) THEN {null_response(id)}
    ELSE {IF IsNone(d) THEN null_response(id)
          ELSE Response(id, Some([json |-> "Hover", contents |-> d.val]), None) :
             d \in get_documentation_for_token(documents, token.val)}

\* The responses handle_text_document_definition can end in.
definition_responses(documents, id, token) ==
    IF IsNone(token) THEN {null_response(id)}
    ELSE {IF IsNone(l) THEN null_response(id)
          ELSE Response(id, Some([json |-> "Location", location |-> l.val]), None) :
             l \in provide_definition_for_token(documents, token.val)}

code_action_response(id, uri, token) ==
    Response(id, Some([json |-> "CodeActions", actions |-> code_actions(uri, token)]), None)

\* The end of handle_text_document_completion.
completion_response(id, items) ==
    IF items = EmptyBag THEN Response(id, None, None)
    ELSE Response(id, Some([json |-> "CompletionList", items |-> items]), None)

(***************************************************************************)
(* The server: the dispatch loop on the main task, the workspace scan on   *)
(* its own task, and DOCUMENT_STORE behind its mutex.                      *)
(***************************************************************************)
VARIABLES
    documents,      \* DOCUMENT_STORE: uri -> Document
    lock,           \* the mutex: "free", "main", "indexer", or "poisoned"
    main_pc,        \* where the dispatch loop stands
    msg,            \* the message being handled
    token,          \* the handler's `token` local
    items,          \* the completion handler's `completion_items` local
    current_line,   \* the completion handler's `current_line` local
    sent,           \* the responses sent since the last message was received
    chan,           \* the receiving channel: "open" or "closed"
    disk,           \* the workspace folder
    ix_pc,          \* where initialize_document_store stands
    ix_paths,       \* its `document_paths`
    ix_documents,   \* its `documents`
    ix_inserted,    \* the keys HashMap::extend has inserted so far
    call            \* the last direct call of a function: name, argument, result

vars == <<documents, lock, main_pc, msg, token, items, current_line, sent, chan, disk,
          ix_pc, ix_paths, ix_documents, ix_inserted, call>>

ix_vars == <<disk, ix_pc, ix_paths, ix_documents, ix_inserted>>

EmptyStore == [u \in {} |-> Document_new(u, "")]

\* No function has been called directly: the server runs.
NoCall == [fn |-> "", arg |-> <<>>, ret |-> <<>>]

\* DocumentStore::new, and start_lsp up to main_loop: the scan is spawned
\* when the client named a workspace folder.
Init ==
    /\ documents = EmptyStore
    /\ lock = "free"
    /\ main_pc = "recv"
    /\ msg = NoMsg
    /\ token = None
    /\ items = {}
    /\ current_line = <<>>
    /\ sent = <<>>
    /\ chan = "open"
    /\ \/ disk \in Workspaces /\ ix_pc = "walk"
       \/ disk = NoWorkspace /\ ix_pc = "off"
    /\ ix_paths = {}
    /\ ix_documents = EmptyStore
    /\ ix_inserted = {}
    /\ call = NoCall

\* The end of one iteration of main_loop: the locals are dropped.
Done ==
    /\ main_pc' = "recv"
    /\ msg' = NoMsg
    /\ token' = None
    /\ items' = {}
    /\ current_line' = <<>>

\* connection.sender.send(Message::Response(response))
Send(response) == sent' = Append(sent, response)

\* The loop with a reader that goes on reading after the exit notification.
ReceivePastExit ==
    /\ main_pc = "recv"
    /\ chan = "open"
    /\ \E m \in Messages : msg' = m
    /\ main_pc' = "dispatch"
    /\ sent' = <<>>
    /\ UNCHANGED <<documents, lock, token, items, current_line, chan>>
    /\ UNCHANGED <<ix_vars, call>>

\* `for msg in &connection.receiver`: the next message.  The reader stops
\* reading once it has passed on the exit notification.
Receive ==
    /\ main_pc = "recv"
    /\ chan = "open"
    /\ \E m \in Messages :
          /\ msg' = m
          /\ chan' = IF m.type = "Notification" /\ m.method = "exit" THEN "closed" ELSE "open"
    /\ main_pc' = "dispatch"
    /\ sent' = <<>>
    /\ UNCHANGED <<documents, lock, token, items, current_line>>
    /\ UNCHANGED <<ix_vars, call>>

\* The client closes the connection.  The loop sees it when it next waits
\* for a message.
Disconnect ==
    /\ main_pc = "recv"
    /\ chan = "open"
    /\ chan' = "closed"
    /\ UNCHANGED <<documents, lock, main_pc, msg, token, items, current_line, sent>>
    /\ UNCHANGED <<ix_vars, call>>

\* The receiver is closed and drained: main_loop returns.
Return ==
    /\ main_pc = "recv"
    /\ chan = "closed"
    /\ main_pc' = "returned"
    /\ UNCHANGED <<documents, lock, msg, token, items, current_line, sent, chan>>
    /\ UNCHANGED <<ix_vars, call>>

\* handle_text_document_did_open: lock the store, insert Document::new.
DidOpen ==
    /\ main_pc = "dispatch"
    /\ msg.type = "Notification" /\ msg.method = "textDocument/didOpen" /\ msg.ok
    /\ lock = "free"
    /\ lock' = "main"
    /\ documents' = add_document(documents, msg.uri, msg.text)
    /\ main_pc' = "parse"
    /\ UNCHANGED <<msg, token, items, current_line, sent, chan>>
    /\ UNCHANGED <<ix_vars, call>>

\* handle_text_document_did_change: lock the store, change_document up to
\* the parse; a refused change leaves the store as it is.
DidChange ==
    /\ main_pc = "dispatch"
    /\ msg.type = "Notification" /\ msg.method = "textDocument/didChange" /\ msg.ok
    /\ lock = "free"
    /\ \E r \in {change_document(documents, msg.uri, msg.changes)} :
           IF r.outcome = "changed"
           THEN /\ documents' = r.documents
                /\ lock' = "main"
                /\ main_pc' = "parse"
                /\ UNCHANGED <<msg, token, items, current_line>>
           ELSE /\ UNCHANGED <<documents, lock>>
                /\ Done
    /\ UNCHANGED <<sent, chan>>
    /\ UNCHANGED <<ix_vars, call>>

\* The parse of add_document and change_document with the guard kept past
\* the end of the handler.
ParseDocumentKeepsLock ==
    /\ main_pc = "parse"
    /\ \E r \in {Document_parse(documents[msg.uri])} :
           IF IsPanic(r)
           THEN /\ main_pc' = "panicked"
                /\ lock' = "poisoned"
                /\ UNCHANGED <<documents, msg, token, items, current_line>>
           ELSE /\ documents' = [documents EXCEPT ![msg.uri] = r.val]
                /\ lock' = lock
                /\ Done
    /\ UNCHANGED <<sent, chan>>
    /\ UNCHANGED <<ix_vars, call>>

\* document.parse() at the end of add_document and of change_document, under
\* the lock.  A panic of the extractor poisons the mutex and ends the loop.
ParseDocument ==
    /\ main_pc = "parse"
    /\ \E r \in {Document_parse(documents[msg.uri])} :
           IF IsPanic(r)
           THEN /\ main_pc' = "panicked"
                /\ lock' = "poisoned"
                /\ UNCHANGED <<documents, msg, token, items, current_line>>
           ELSE /\ documents' = [documents EXCEPT ![msg.uri] = r.val]
                /\ lock' = "free"
                /\ Done
    /\ UNCHANGED <<sent, chan>>
    /\ UNCHANGED <<ix_vars, call>>

\* handle_notification with a didClose that drops the document.
ForgetOnClose ==
    /\ main_pc = "dispatch"
    /\ msg.type = "Notification"
    /\ \/ msg.method \notin {"textDocument/didOpen", "textDocument/didChange"}
       \/ ~msg.ok
    /\ lock = "free"
    /\ documents' = IF msg.method = "textDocument/didClose"
                    THEN [u \in (DOMAIN documents) \ {msg.uri} |-> documents[u]]
                    ELSE documents
    /\ Done
    /\ UNCHANGED <<lock, sent, chan>>
    /\ UNCHANGED <<ix_vars, call>>

\* handle_notification for didClose, didSave, exit and the methods it does
\* not know, and for didOpen or didChange params that do not parse.
IgnoreNotification ==
    /\ main_pc = "dispatch"
    /\ msg.type = "Notification"
    /\ \/ msg.method \notin {"textDocument/didOpen", "textDocument/didChange"}
       \/ ~msg.ok
    /\ Done
    /\ UNCHANGED <<documents, lock, sent, chan>>
    /\ UNCHANGED <<ix_vars, call>>

\* main_loop's last arm: a Response from the client is logged.
ClientResponse ==
    /\ main_pc = "dispatch"
    /\ msg.type = "Response"
    /\ Done
    /\ UNCHANGED <<documents, lock, sent, chan>>
    /\ UNCHANGED <<ix_vars, call>>

\* handle_request for "shutdown" and for the methods it does not know: the
\* handler result is None, which goes out as a null result.
NullRequest ==
    /\ main_pc = "dispatch"
    /\ msg.type = "Request"
    /\ msg.method \notin CursorMethods
    /\ Send(null_response(msg.id))
    /\ Done
    /\ UNCHANGED <<documents, lock, chan>>
    /\ UNCHANGED <<ix_vars, call>>

\* The four handlers when the params do not parse.
MalformedRequest ==
    /\ main_pc = "dispatch"
    /\ msg.type = "Request"
    /\ msg.method \in CursorMethods
    /\ ~msg.ok
    /\ Send(get_response_error(msg.id, "InvalidParams"))
    /\ Done
    /\ UNCHANGED <<documents, lock, chan>>
    /\ UNCHANGED <<ix_vars, call>>

\* Where a handler goes on once the token is settled.
after_cursor(method) == IF method = "textDocument/completion" THEN "snippets" ELSE "lookup"

\* `if let Some(document) = DOCUMENT_STORE.lock().unwrap().get_document(uri)`:
\* the guard lives to the end of the `if let`, so with a document found the
\* lock stays held for the body.
LockDocument ==
    /\ main_pc = "dispatch"
    /\ msg.type = "Request"
    /\ msg.method \in CursorMethods
    /\ msg.ok
    /\ lock = "free"
    /\ IF msg.uri \in DOMAIN documents
       THEN /\ lock' = "main"
            /\ main_pc' = "cursor"
       ELSE /\ lock' = "free"
            /\ main_pc' = after_cursor(msg.method)
    /\ UNCHANGED <<documents, msg, token, items, current_line, sent, chan>>
    /\ UNCHANGED <<ix_vars, call>>

\* The completion handler looks at the character before the cursor.
cursor_position(m) ==
    IF m.method = "textDocument/completion" /\ m.position.character > 0
    THEN Position(m.position.line, m.position.character - 1)
    ELSE m.position

\* The body of the `if let`: document.get_token_under_cursor(position), then
\* the guard is dropped.  A panic of the extractor poisons the mutex.  The
\* completion handler first takes the line of the cursor from the content.
ResolveCursor ==
    /\ main_pc = "cursor"
    /\ current_line' = IF msg.method = "textDocument/completion"
                       THEN nth_line(documents[msg.uri], msg.position.line)
                       ELSE current_line
    /\ \E r \in {get_token_under_cursor(documents[msg.uri], cursor_position(msg))} :
           IF IsPanic(r)
           THEN /\ main_pc' = "panicked"
                /\ lock' = "poisoned"
                /\ UNCHANGED token
           ELSE /\ token' = r
                /\ lock' = "free"
                /\ main_pc' = after_cursor(msg.method)
    /\ UNCHANGED <<documents, msg, items, sent, chan>>
    /\ UNCHANGED <<ix_vars, call>>

\* The rest of handle_text_document_hover: the documentation of the token,
\* looked up under the lock for the references to routes, services, hooks
\* and permissions.
HoverRespond ==
    /\ main_pc = "lookup"
    /\ msg.method = "textDocument/hover"
    /\ (IsSome(token) /\ documentation_locks(token.val)) => lock = "free"
    /\ \E r \in hover_responses(documents, msg.id, token) : Send(r)
    /\ Done
    /\ UNCHANGED <<documents, lock, chan>>
    /\ UNCHANGED <<ix_vars, call>>

\* The rest of handle_text_document_definition: provide_definition_for_token
\* locks the store.
DefinitionRespond ==
    /\ main_pc = "lookup"
    /\ msg.method = "textDocument/definition"
    /\ IsSome(token) => lock = "free"
    /\ \E r \in definition_responses(documents, msg.id, token) : Send(r)
    /\ Done
    /\ UNCHANGED <<documents, lock, chan>>
    /\ UNCHANGED <<ix_vars, call>>

\* The rest of handle_text_document_code_action.
CodeActionRespond ==
    /\ main_pc = "lookup"
    /\ msg.method = "textDocument/codeAction"
    /\ Send(code_action_response(msg.id, msg.uri, token))
    /\ Done
    /\ UNCHANGED <<documents, lock, chan>>
    /\ UNCHANGED <<ix_vars, call>>

\* handle_text_document_completion, lines 47-49: the file name is split, and
\* get_global_snippets reads the store under the lock.
CompletionSnippets ==
    /\ main_pc = "snippets"
    /\ IF IsNone(split_file_name(msg.uri))
       THEN /\ Send(null_response(msg.id))
            /\ Done
       ELSE /\ lock = "free"
            /\ items' = get_global_snippets(documents)
            /\ main_pc' = "complete"
            /\ UNCHANGED <<msg, token, current_line, sent>>
    /\ UNCHANGED <<documents, lock, chan>>
    /\ UNCHANGED <<ix_vars, call>>

\* Whether the branch of the completion handler reads the store.
completion_locks(tok, file) ==
    IF IsSome(tok)
    THEN tok.val.data.kind \in {"DrupalRouteReference", "DrupalServiceReference",
                                "PhpMethodReference", "DrupalPermissionReference",
                                "DrupalPluginReference"}
    ELSE file.extension \in {S_module, S_theme}

\* The tokens the completion handler calls get_documentation_for_token with
\* inside its walk of the store, that is while it holds the guard: the
\* definitions of the kind the reference under the cursor asks for, and the
\* hook definitions in a module or theme file.
documented_under_lock(documents_, tok, file) ==
    LET kind == IF IsNone(tok)
                THEN (IF file.extension \in {S_module, S_theme}
                      THEN "DrupalHookDefinition" ELSE "")
                ELSE CASE tok.val.data.kind = "DrupalRouteReference" -> "DrupalRouteDefinition"
                       [] tok.val.data.kind = "DrupalServiceReference" ->
                              "DrupalServiceDefinition"
                       [] tok.val.data.kind = "DrupalPermissionReference" ->
                              "DrupalPermissionDefinition"
                       [] tok.val.data.kind = "DrupalPluginReference" -> "PhpClassDefinition"
                       [] OTHER -> ""
    IN  {token_at(documents_, p) :
            p \in {q \in places_of_kind(documents_, kind) :
                      (IsSome(tok) /\ tok.val.data.kind = "DrupalPluginReference")
                          => /\ IsSome(token_at(documents_, q).data.attribute)
                             /\ token_at(documents_, q).data.attribute.val.plugin_type
                                    = tok.val.data.plugin_type}}

\* handle_text_document_completion, lines 50-325.  The walk of the store
\* holds the guard; a call in it that locked the store again would leave the
\* thread at that lock() (std::sync::Mutex is not reentrant).
CompletionRespond ==
    /\ main_pc = "complete"
    /\ LET file == split_file_name(msg.uri).val
       IN  /\ completion_locks(token, file) => lock = "free"
           /\ IF \E t \in documented_under_lock(documents, token, file) :
                    documentation_locks(t)
              THEN /\ main_pc' = "relock"
                   /\ lock' = "main"
                   /\ UNCHANGED <<msg, token, items, current_line, sent>>
              ELSE /\ \E o \in completion_items(documents, token, file, current_line,
                                                 msg.position) :
                         IF IsNone(o) THEN Send(null_response(msg.id))
                         ELSE Send(completion_response(msg.id, SetToBag(items) (+) o.val))
                   /\ Done
                   /\ UNCHANGED lock
    /\ UNCHANGED <<documents, chan>>
    /\ UNCHANGED <<ix_vars, call>>

(***************************************************************************)
(* initialize_document_store                                               *)
(***************************************************************************)
main_vars == <<main_pc, msg, token, items, current_line, sent, chan>>

\* The walk of the workspace folder with the overrides.
IxWalk ==
    /\ ix_pc = "walk"
    /\ ix_paths' = {p \in DOMAIN disk : scan_matches(p)}
    /\ ix_pc' = "parse"
    /\ UNCHANGED <<documents, lock, disk, ix_documents, ix_inserted>>
    /\ UNCHANGED <<main_vars, call>>

\* collect() into the HashMap keyed by uri; a panic on any path is passed on.
collect_documents(paths, parsed) ==
    IF \E p \in paths : IsPanic(parsed[p]) THEN Panic
    ELSE Some([u \in {file_uri(p) : p \in paths} |->
                  parsed[CHOOSE p \in paths : file_uri(p) = u].val])

\* The documents the parallel map collects: Panic when read_to_string fails
\* on a path (the unwrap) or an extractor panics.
scan_documents(files, paths) ==
    collect_documents(paths,
        [p \in paths |-> IF files[p].readable
                         THEN Document_parse(Document_new(file_uri(p), files[p].content))
                         ELSE Panic])

\* The parallel read and parse, without the store lock.
IxParse ==
    /\ ix_pc = "parse"
    /\ \E r \in {scan_documents(disk, ix_paths)} :
           IF IsPanic(r)
           THEN /\ ix_pc' = "panicked"
                /\ UNCHANGED ix_documents
           ELSE /\ ix_documents' = r.val
                /\ ix_pc' = "lock"
    /\ UNCHANGED <<documents, lock, disk, ix_paths, ix_inserted>>
    /\ UNCHANGED <<main_vars, call>>

\* DOCUMENT_STORE.lock().unwrap() of the last line.
IxLock ==
    /\ ix_pc = "lock"
    /\ lock \in {"free", "poisoned"}
    /\ IF lock = "free"
       THEN lock' = "indexer" /\ ix_pc' = "extend"
       ELSE lock' = lock /\ ix_pc' = "panicked"
    /\ UNCHANGED <<documents, disk, ix_paths, ix_documents, ix_inserted>>
    /\ UNCHANGED <<main_vars, call>>

\* add_documents that takes the lock anew for every document.
IxExtendPiecewise ==
    /\ ix_pc = "extend"
    /\ \E u \in (DOMAIN ix_documents) \ ix_inserted :
          /\ documents' = map_insert(documents, u, ix_documents[u])
          /\ ix_inserted' = ix_inserted \cup {u}
    /\ lock' = "free"
    /\ ix_pc' = IF ix_inserted' = DOMAIN ix_documents THEN "done" ELSE "lock"
    /\ UNCHANGED <<disk, ix_paths, ix_documents>>
    /\ UNCHANGED <<main_vars, call>>

\* add_documents that keeps a document the store already holds.
IxExtendKeepingOpened ==
    /\ ix_pc = "extend"
    /\ \E u \in (DOMAIN ix_documents) \ ix_inserted :
          /\ documents' = IF u \in DOMAIN documents THEN documents
                          ELSE map_insert(documents, u, ix_documents[u])
          /\ ix_inserted' = ix_inserted \cup {u}
    /\ UNCHANGED <<lock, disk, ix_pc, ix_paths, ix_documents>>
    /\ UNCHANGED <<main_vars, call>>

\* add_documents: HashMap::extend inserts the scanned documents one by one.
IxExtend ==
    /\ ix_pc = "extend"
    /\ \E u \in (DOMAIN ix_documents) \ ix_inserted :
          /\ documents' = map_insert(documents, u, ix_documents[u])
          /\ ix_inserted' = ix_inserted \cup {u}
    /\ UNCHANGED <<lock, disk, ix_pc, ix_paths, ix_documents>>
    /\ UNCHANGED <<main_vars, call>>

\* The guard is dropped at the end of the statement.
IxRelease ==
    /\ ix_pc = "extend"
    /\ ix_inserted = DOMAIN ix_documents
    /\ lock' = "free"
    /\ ix_pc' = "done"
    /\ UNCHANGED <<documents, disk, ix_paths, ix_documents, ix_inserted>>
    /\ UNCHANGED <<main_vars, call>>

Next ==
    \/ Receive
    \/ Disconnect
    \/ Return
    \/ DidOpen
    \/ DidChange
    \/ ParseDocument
    \/ IgnoreNotification
    \/ ClientResponse
    \/ NullRequest
    \/ MalformedRequest
    \/ LockDocument
    \/ ResolveCursor
    \/ HoverRespond
    \/ DefinitionRespond
    \/ CodeActionRespond
    \/ CompletionSnippets
    \/ CompletionRespond
    \/ IxWalk
    \/ IxParse
    \/ IxLock
    \/ IxExtend
    \/ IxRelease

Spec == Init /\ [][Next]_vars

(***************************************************************************)
(* Direct calls.  The functions of the parsers and of the store are also   *)
(* called one at a time, on a store filled with parsed documents and on    *)
(* arguments drawn from small sets; `call` records the call and its result.*)
(* Each behaviour makes one call; the server itself stands still.          *)
(***************************************************************************)
U_svc2 == file_uri(<<"/", "b">> \o S_services_yml)
U_rt == file_uri(<<"/", "a">> \o S_routing_yml)
U_perm == file_uri(<<"/", "a">> \o S_permissions_yml)
U_api == file_uri(<<"/", "a", ".", "a", "p", "i">> \o S_php)
U_php2 == file_uri(S_dir_src \o <<"D">> \o S_php)
\* The uri the scan forms for the path "/d e/a.routing.yml".
U_blank == file_uri(<<"/", "d", " ", "e", "/", "a">> \o S_routing_yml)

U_rt2 == file_uri(<<"/", "b">> \o S_routing_yml)
U_rt0 == file_uri(<<"/", "c">> \o S_routing_yml)
U_call == file_uri(S_dir_src \o <<"E">> \o S_php)
U_tr == file_uri(S_dir_src \o <<"T">> \o S_php)

\* The documents a store may hold when a function is called on it.
BaseUris == {U_svc, U_svc2, U_rt, U_perm, U_php, U_api, U_php2, U_blank, U_txt}
RouteUris == {U_rt, U_rt2, U_rt0, U_call}

StoreTexts ==
    (U_svc :> {"Y_svc", "Y_empty"}) @@ (U_svc2 :> {"Y_svc"}) @@ (U_rt :> {"Y_rt"})
    @@ (U_perm :> {"Y_perm"}) @@ (U_php :> {"P_cls"}) @@ (U_api :> {"P_api"})
    @@ (U_php2 :> {"P_cls0"}) @@ (U_blank :> {"Y_rt"}) @@ (U_txt :> {"T_txt"})
    @@ (U_rt2 :> {"Y_rt2"}) @@ (U_rt0 :> {"Y_rt0"}) @@ (U_call :> RouteCallTexts)
    @@ (U_tr :> TranslationTexts)

\* The stores add_document builds from these: every uri is absent or holds
\* one of its texts, parsed.
with_document(stores, uri) ==
    stores \cup {map_insert(store, uri, Document_parse(Document_new(uri, text)).val) :
                    store \in stores, text \in StoreTexts[uri]}

RECURSIVE stores_over(_)
stores_over(uris) ==
    IF uris = {} THEN {EmptyStore}
    ELSE with_document(stores_over(uris \ {CHOOSE u \in uris : TRUE}),
                       CHOOSE u \in uris : TRUE)

\* Every store over the base uris, the stores over the routing files that
\* hold a source with a call, and the stores of one source with a t() call.
Stores ==
    stores_over(BaseUris) \cup {store \in stores_over(RouteUris) : U_call \in DOMAIN store}
    \cup stores_over({U_tr})

Call(fn, arg, ret) == [fn |-> fn, arg |-> arg, ret |-> ret]

CallInit ==
    /\ documents \in Stores
    /\ lock = "free"
    /\ main_pc = "recv"
    /\ msg = NoMsg
    /\ token = None
    /\ items = {}
    /\ current_line = <<>>
    /\ sent = <<>>
    /\ chan = "open"
    /\ disk = NoWorkspace
    /\ ix_pc = "off"
    /\ ix_paths = {}
    /\ ix_documents = EmptyStore
    /\ ix_inserted = {}
    /\ call = NoCall

server_vars == <<documents, lock, main_pc, msg, token, items, current_line, sent, chan, ix_vars>>

\* The names the typed queries are called with: names the sources define,
\* and names that differ from them in case or by a blank.
S_My_svc == <<"M", "y", ".", "s", "v", "c">>
S_my_svc_blank == S_my_svc \o <<" ">>
S_hook_X == S_hook_ \o <<"X">>
S_nc == <<"n", "\\", "c">>
QueryNames == {S_my_svc, S_My_svc, S_my_svc_blank, S_r_x, S_adm, S_NC, S_nc, S_hook_x, S_hook_X}

TypedQueries == {"get_service_definition", "get_route_definition", "get_class_definition",
                 "get_hook_definition", "get_permission_definition"}

typed_query(store, fn, name) ==
    CASE fn = "get_service_definition" -> get_service_definition(store, name)
      [] fn = "get_route_definition" -> get_route_definition(store, name)
      [] fn = "get_class_definition" -> get_class_definition(store, name)
      [] fn = "get_hook_definition" -> get_hook_definition(store, name)
      [] fn = "get_permission_definition" -> get_permission_definition(store, name)

\* One of the typed queries of the store is called with a name.
CallTypedQuery ==
    /\ call = NoCall
    /\ \E fn \in TypedQueries, name \in QueryNames :
           call' = Call(fn, name, typed_query(documents, fn, name))
    /\ UNCHANGED server_vars

\* The method references get_method_definition is called with: N\C::m,
\* N\C::q, N\D::m as the routing files name them, and m() called on the
\* service my.svc.
S_ND == <<"N", "\\", "D">>
MethodArgs ==
    {PhpMethod_try_from(S_NC_m).val,
     PhpMethod_try_from(S_NC \o S_colons \o S_q).val,
     PhpMethod_try_from(S_ND \o S_colons \o S_m).val,
     [name |-> S_m, class_name |-> None, service_name |-> Some(S_my_svc)]}

\* get_method_definition is called with a method reference.
CallGetMethodDefinition ==
    /\ call = NoCall
    /\ \E method \in MethodArgs :
           call' = Call("get_method_definition", method,
                        get_method_definition(documents, method))
    /\ UNCHANGED server_vars

\* The sources the parsers are called on, each under a uri of its language.
SampleDocuments ==
    {Document_new(U_svc, "Y_svc"), Document_new(U_svc, "Y_empty"),
     Document_new(U_rt, "Y_rt"), Document_new(U_perm, "Y_perm"),
     Document_new(U_php, "P_ref"), Document_new(U_php, "P_cls"),
     Document_new(U_php, "P_cls0"), Document_new(U_php, "P_bad"),
     Document_new(U_api, "P_api"), Document_new(U_txt, "T_txt")}

CallPositions ==
    {Position(0, 1), Position(0, 2), Position(0, 25), Position(1, 10), Position(1, 18),
     Position(1, 24), Position(1, 27), Position(2, 3),
     Position(2, 12), Position(3, 5), Position(3, 17), Position(3, 20), Position(3, 21),
     Position(4, 3), Position(4, 11), Position(4, 20)}

\* The tokens the handlers get from the cursor on the sources, and tokens of
\* the kinds the sources have no example of.
TokenArgs ==
    {r.val : r \in {t \in {get_token_under_cursor(d, p) :
                                d \in SampleDocuments, p \in CallPositions} : IsSome(t)}}
    \cup {Token([kind |-> "DrupalPermissionReference", name |-> S_adm],
                 [start_point |-> <<0, 0>>, end_point |-> <<0, 9>>]),
          Token([kind |-> "DrupalPluginReference", plugin_type |-> "QueueWorker",
                 plugin_id |-> S_adm],
                [start_point |-> <<0, 0>>, end_point |-> <<0, 9>>]),
          Token([kind |-> "DrupalTranslationString", string |-> S_adm,
                 placeholders |-> None],
                [start_point |-> <<0, 0>>, end_point |-> <<0, 9>>])}

\* provide_definition_for_token is called with a token.
CallProvideDefinition ==
    /\ call = NoCall
    /\ \E tok \in TokenArgs :
           call' = Call("provide_definition_for_token", tok,
                        provide_definition_for_token(documents, tok))
    /\ UNCHANGED server_vars

\* get_token_at_position of the document's parser is called with a position.
CallGetTokenAtPosition ==
    /\ call = NoCall
    /\ \E d \in {e \in SampleDocuments : e.file_type # "Unknown"}, p \in CallPositions :
           call' = Call("get_token_at_position", [document |-> d, position |-> p],
                        get_token_at_position(d.file_type, get_tree(d.file_type, d.content),
                                              d.uri, p))
    /\ UNCHANGED server_vars

\* The uris uri_to_file_type is called with: those of its test, the uris of
\* the stores, and near misses of the suffixes.
S_test == <<"t", "e", "s", "t">>
S_foo == <<"f", "o", "o">>
S_txt == <<".", "t", "x", "t">>
UriArgs ==
    {S_test \o S_php, S_foo \o S_module, S_foo \o S_theme, S_foo \o S_install,
     <<"x">> \o S_yml, <<"x">> \o S_yaml, S_test \o S_php \o S_txt, S_test, <<>>,
     S_yml, S_php, <<"y", "m", "l">>, <<"p", "h", "p">>, <<"x", ".", "Y", "M", "L">>,
     <<"x", ".", "P", "h", "p">>, <<"x">> \o S_yml \o <<"x">>, <<"x">> \o S_php \o <<".">>,
     <<"x">> \o S_yml \o S_php, <<"x">> \o S_php \o S_yml,
     <<"x">> \o S_module \o <<"s">>, <<"x", ".", "i", "n", "s", "t", "a", "l">>,
     <<"x", ".", "y", "a", "m">>, <<"x">> \o S_yaml \o <<" ">>}
    \cup DOMAIN StoreTexts \cup Uris

\* uri_to_file_type is called with a uri.
CallUriToFileType ==
    /\ call = NoCall
    /\ \E uri \in UriArgs : call' = Call("uri_to_file_type", uri, uri_to_file_type(uri))
    /\ UNCHANGED server_vars

\* The uris and texts add_document and change_document are called with: the
\* uris of the store's tests (a .txt file), uris without a known suffix, and
\* a PHP file; plain text and text that a parser would take.
U_test_txt == <<"f", "i", "l", "e", ":", "/", "/", "t", "e", "s", "t", "-", "f", "i", "l", "e">> \o S_txt
PutUris == {U_txt, U_test_txt, S_test \o S_php \o S_txt, S_test, U_php2}
PutTexts(uri) ==
    IF uri = U_php2 THEN {"P_cls", "P_cls0"} ELSE {"T_txt", "T_new", "P_cls", "P_cls0", "Y_svc"}

session_vars == <<lock, main_pc, msg, token, items, current_line, sent, chan, ix_vars>>

\* DocumentStore::add_document is called: the insertion and the parse.
CallAddDocument ==
    /\ call = NoCall
    /\ \E uri \in PutUris : \E text \in PutTexts(uri) :
       \E inserted \in {add_document(documents, uri, text)} :
       \E r \in {Document_parse(inserted[uri])} :
           IF IsPanic(r)
           THEN /\ call' = Call("add_document", [uri |-> uri, text |-> text], "panic")
                /\ UNCHANGED documents
           ELSE /\ call' = Call("add_document", [uri |-> uri, text |-> text], "added")
                /\ documents' = [inserted EXCEPT ![uri] = r.val]
    /\ UNCHANGED session_vars

\* DocumentStore::change_document is called with a list of full-text changes:
\* the refusals, the replacement of the content and the parse.
CallChangeDocument ==
    /\ call = NoCall
    /\ \E uri \in PutUris : \E changes \in SeqsOf(PutTexts(uri), MaxChanges) :
       \E c \in {change_document(documents, uri, changes)} :
           IF c.outcome = "changed"
           THEN \E r \in {Document_parse(c.documents[uri])} :
                   IF IsPanic(r)
                   THEN /\ call' = Call("change_document", [uri |-> uri, changes |-> changes], "panic")
                        /\ UNCHANGED documents
                   ELSE /\ call' = Call("change_document", [uri |-> uri, changes |-> changes], "changed")
                        /\ documents' = [c.documents EXCEPT ![uri] = r.val]
           ELSE /\ call' = Call("change_document", [uri |-> uri, changes |-> changes], c.outcome)
                /\ UNCHANGED documents
    /\ UNCHANGED session_vars

\* The strings the conversions of parser/tokens.rs are called with: every
\* string of up to MaxLen characters over quote, backslash, colon and two
\* letters, and the strings of the unit tests.
MaxLen == 5
NameChars == {"'", "\\", ":", "N", "m"}
NameArgs ==
    SeqsOf(NameChars, MaxLen)
    \cup {S_NC, <<"\\">> \o S_NC, <<"'", "\\">> \o S_NC \o <<"\\", "'">>,
          S_NC_m, <<"'", "\\">> \o S_NC_m \o <<"'">>,
          <<"i", "n", "v", "a", "l", "i", "d", " ", "c", "l", "a", "s", "s">>}

\* PhpClassName::from is called with a string, and again with its result.
\* The conversions read no store: they are called on the empty one.
CallPhpClassNameFrom ==
    /\ call = NoCall
    /\ documents = EmptyStore
    /\ \E value \in NameArgs :
           call' = Call("PhpClassName::from", value,
                        [name |-> PhpClassName_from(value),
                         again |-> PhpClassName_from(PhpClassName_from(value))])
    /\ UNCHANGED server_vars

\* PhpMethod::try_from is called with a string.
CallPhpMethodTryFrom ==
    /\ call = NoCall
    /\ documents = EmptyStore
    /\ \E value \in NameArgs :
           call' = Call("PhpMethod::try_from", value, PhpMethod_try_from(value))
    /\ UNCHANGED server_vars

\* handle_text_document_completion for valid params: the token before the
\* cursor, the split of the file name, the global snippets and the items of
\* the token's branch.  The responses it can end in, or Panic.
handle_text_document_completion(documents_, id, uri, position) ==
    LET request == Request("textDocument/completion", TRUE, id, uri, position)
        tok == IF uri \in DOMAIN documents_
               THEN get_token_under_cursor(documents_[uri], cursor_position(request))
               ELSE None
        line == IF uri \in DOMAIN documents_
                THEN nth_line(documents_[uri], position.line)
                ELSE <<>>
        file == split_file_name(uri)
    IN  IF IsPanic(tok) THEN {Panic}
        ELSE IF IsNone(file) THEN {null_response(id)}
        ELSE {IF IsNone(o) THEN null_response(id)
              ELSE completion_response(id, SetToBag(get_global_snippets(documents_)) (+) o.val) :
                 o \in completion_items(documents_, tok, file.val, line, position)}

\* The uris of completion requests: the documents of the stores, a module
\* file and a file without an extension that the store does not hold.
U_module == file_uri(<<"/">> \o S_foo \o S_module)
U_Makefile == file_uri(<<"/", "M", "a", "k", "e", "f", "i", "l", "e">>)
CompletionUris == DOMAIN StoreTexts \cup {U_module, U_Makefile}

\* A completion request with valid params is handled.
CallCompletion ==
    /\ call = NoCall
    /\ \E uri \in CompletionUris, position \in CallPositions :
       \E response \in handle_text_document_completion(documents, 1, uri, position) :
           call' = Call("handle_text_document_completion",
                        [uri |-> uri, position |-> position], response)
    /\ UNCHANGED server_vars

\* The paths get_route_parameters is called with: every string of up to
\* MaxLen characters over braces, a slash and a letter, and the paths of the
\* routing files.
PathArgs == SeqsOf({"{", "}", "/", "a"}, MaxLen) \cup {S_path_x_a, S_path_y_a_b, S_path_z}

\* DrupalRoute::get_route_parameters is called on a route with that path.
CallGetRouteParameters ==
    /\ call = NoCall
    /\ documents = EmptyStore
    /\ \E path \in PathArgs :
           call' = Call("get_route_parameters", path, get_route_parameters(path, 1))
    /\ UNCHANGED server_vars

\* handle_text_document_code_action for valid params: the token at the start
\* of the range, and the response with the actions for it, or Panic.
handle_text_document_code_action(documents_, id, uri, position) ==
    LET tok == IF uri \in DOMAIN documents_
               THEN get_token_under_cursor(documents_[uri], position)
               ELSE None
    IN  IF IsPanic(tok) THEN Panic ELSE code_action_response(id, uri, tok)

CodeActionPositions == {Position(0, 1), Position(1, 4), Position(1, 12)}

\* A code action request with valid params is handled.
CallCodeAction ==
    /\ call = NoCall
    /\ \E uri \in {U_tr, U_call, U_php}, position \in CodeActionPositions :
           call' = Call("handle_text_document_code_action",
                        [uri |-> uri, position |-> position],
                        handle_text_document_code_action(documents, 1, uri, position))
    /\ UNCHANGED server_vars

\* The translation strings the argument list is built for: every string of
\* up to MaxLen characters over two markers, a letter and a blank, and the
\* strings of the sources.
TranslationArgs ==
    SeqsOf({"@", ":", "a", " "}, MaxLen) \cup {S_tr_named, S_tr_bare, S_tr_a}

\* The argument list of the code action is built for a translation string.
CallArgumentsString ==
    /\ call = NoCall
    /\ documents = EmptyStore
    /\ \E string \in TranslationArgs :
           call' = Call("arguments_string", string, arguments_string(string))
    /\ UNCHANGED server_vars

\* The PHP sources the extractor is run on in scan mode.
PhpTexts ==
    {"P_ref", "P_cls", "P_cls0", "P_api", "P_bad"} \cup DOMAIN CallParts
    \cup DOMAIN MemberCallParts \cup DOMAIN ClassParts

\* PhpParser::get_tokens is called on a source.
CallGetTokens ==
    /\ call = NoCall
    /\ documents = EmptyStore
    /\ \E content \in PhpTexts :
           call' = Call("get_tokens", [file_type |-> "Php", content |-> content],
                        get_tokens("Php", content, U_php))
    /\ UNCHANGED server_vars

\* The uris the classification of a mapping is run under.
MappingUris == {U_perm, U_rt, U_svc}

\* YamlParser::parse_block_mapping_pair is called, in scan mode, on the
\* top-level pair of a source whose value is a mapping.
CallParseBlockMappingPair ==
    /\ call = NoCall
    /\ documents = EmptyStore
    /\ \E uri \in MappingUris, key \in MappingKeys, entries \in MappingEntries :
           call' = Call("parse_block_mapping_pair",
                        [uri |-> uri, key |-> key, entries |-> entries],
                        parse_block_mapping_pair(MappingTree(key, entries), 5, None, uri))
    /\ UNCHANGED server_vars

\* The sources with one call statement, and cursor positions in the literal
\* of the call of each.
CallDocuments ==
    {Document_new(U_call, content) : content \in DOMAIN CallParts \cup DOMAIN MemberCallParts}

LiteralPositions ==
    {Position(1, 4), Position(1, 12), Position(1, 18), Position(1, 24), Position(1, 27),
     Position(1, 40), Position(1, 42), Position(1, 45)}

\* PhpParser::get_token_at_position is called on a source with one call.
CallGetTokenInCall ==
    /\ call = NoCall
    /\ documents = EmptyStore
    /\ \E d \in CallDocuments, p \in LiteralPositions :
           call' = Call("get_token_at_position", [document |-> d, position |-> p],
                        get_token_at_position(d.file_type, get_tree(d.file_type, d.content),
                                              d.uri, p))
    /\ UNCHANGED server_vars

\* The comments the extractor is run on: a line comment that may hold a
\* call foo() or another hook name before "Implements hook_x", and after it
\* nothing, a full stop, "()." or an argument list that is not empty.
S_line_comment == <<"/", "/", " ">>
CommentTexts ==
    {S_line_comment \o before \o S_Implements_hook_ \o <<"x">> \o after :
        before \in {<<>>, <<"f", "o", "o", "(", ")", " ">>, S_hook_ \o <<"y", " ">>},
        after \in {<<>>, <<".">>, <<"(", ")", ".">>, <<"(", "$", "a", ")">>,
                   <<"(", ")", " ", "b", "(", ")">>}}
    \cup {S_line_comment \o <<"f", "o", "o", "(", ")">>, S_line_comment \o S_hook_ \o <<"x">>}

\* The parameter lists of the functions: none, one parameter, a default
\* that ends with a call, a default in parentheses, a parenthesised type.
ParameterTexts ==
    {S_parens,
     <<"(", "$", "a", ")">>,
     <<"(", "$", "a", " ", "=", " ", "a", "r", "r", "a", "y", "(", ")", ")">>,
     <<"(", "$", "a", " ", "=", " ", "(", "1", ")", ")">>,
     <<"(", "(", "A", "&", "B", ")", "|", "n", "u", "l", "l", " ", "$", "a", ")">>,
     <<"(", "$", "a", " ", "=", " ", "f", "(", ")", ",", " ", "$", "b", ")">>}

FunctionNames == {S_hook_x, S_foo}

\* PhpParser::parse_nodes runs, in scan mode, on a source with a comment
\* and a function.
CallParseNodes ==
    /\ call = NoCall
    /\ documents = EmptyStore
    /\ \E comment \in CommentTexts, name \in FunctionNames, parameters \in ParameterTexts :
           call' = Call("parse_nodes",
                        [comment |-> comment, name |-> name, parameters |-> parameters],
                        parse_nodes("Php", FunctionTree(comment, name, parameters), U_php,
                                    <<1>>, 1, <<>>, <<>>))
    /\ UNCHANGED server_vars

CallNext ==
    \/ CallCompletion
    \/ CallParseNodes
    \/ CallGetTokenInCall
    \/ CallParseBlockMappingPair
    \/ CallGetTokens
    \/ CallCodeAction
    \/ CallArgumentsString
    \/ CallGetRouteParameters
    \/ CallPhpClassNameFrom
    \/ CallPhpMethodTryFrom
    \/ CallAddDocument
    \/ CallChangeDocument
    \/ CallTypedQuery
    \/ CallUriToFileType
    \/ CallGetTokenAtPosition
    \/ CallProvideDefinition
    \/ CallGetMethodDefinition

CallSpec == CallInit /\ [][CallNext]_vars

(***************************************************************************)
(* The claims.                                                             *)
(***************************************************************************)
\* C1: in every reachable state in which the store lock is free, the tokens
\* of every document of the store are what the extractor of the document's
\* file type yields for the document's content.
C1_TokensMatchContent ==
    lock = "free" =>
        \A u \in DOMAIN documents :
            Some(documents[u].tokens)
                = get_tokens(documents[u].file_type, documents[u].content, documents[u].uri)

\* C1 witness: the scan has merged, the editor has since replaced the text of
\* the scanned class file by another one, and the lock is free again.
C1_Witness ==
    /\ lock = "free"
    /\ ix_pc = "done"
    /\ main_pc = "recv"
    /\ U_php \in DOMAIN documents
    /\ documents[U_php].content = "P_ref"
    /\ U_svc \in DOMAIN documents
    /\ documents[U_svc].tokens # <<>>

\* The step that ends a put or an apply_change: the parse under the lock has
\* returned.
C2_UpdateCompletes == main_pc = "parse" /\ main_pc' = "recv"

\* C2: for every uri u and text T, once didOpen's put(u, T), or didChange's
\* apply_change(u, [T]) on a u the store holds, has completed, the document
\* at u has content T and the tokens the extractor of u's file type yields
\* for T, whatever the store held for u before.
C2_UpdateTakesEffect ==
    [][ C2_UpdateCompletes =>
            \E T \in Texts(msg.uri) :
                /\ T = IF msg.method = "textDocument/didOpen" THEN msg.text
                       ELSE IF Len(msg.changes) = 1 THEN msg.changes[1]
                       ELSE documents[msg.uri].content
                /\ documents'[msg.uri].content = T
                /\ Some(documents'[msg.uri].tokens)
                       = get_tokens(uri_to_file_type(msg.uri), T, msg.uri) ]_vars

\* C2 witness: the scan had merged the service file with its definition; a
\* didChange has replaced its text by the empty one and is about to re-parse.
C2_Witness ==
    /\ main_pc = "parse"
    /\ msg.method = "textDocument/didChange"
    /\ msg.uri = U_svc
    /\ msg.changes = <<"Y_empty">>
    /\ documents[U_svc].content = "Y_empty"
    /\ documents[U_svc].tokens # <<>>
    /\ ix_pc = "done"

\* The step in which the main task handles a didChange that is to be refused.
C3_Refused ==
    /\ main_pc = "dispatch"
    /\ msg.type = "Notification" /\ msg.method = "textDocument/didChange" /\ msg.ok
    /\ Len(msg.changes) > 1 \/ msg.uri \notin DOMAIN documents
    /\ main_pc' # "dispatch"

\* C3: an apply_change with more than one change, or for a uri the store
\* does not hold, leaves the whole store as it was: no content or tokens
\* change, no document is created, and the handler is done.
C3_RefusedChangeKeepsStore ==
    [][ C3_Refused => documents' = documents /\ main_pc' = "recv" /\ lock' = lock ]_vars

\* C3 witness: a didChange with two changes for a document the store holds is
\* about to be handled.
C3_Witness ==
    /\ main_pc = "dispatch"
    /\ msg.method = "textDocument/didChange"
    /\ Len(msg.changes) = 2
    /\ msg.uri \in DOMAIN documents
    /\ msg.changes[2] # documents[msg.uri].content
    /\ lock = "free"

\* C4: the set of uris of the store never shrinks, and the step that handles a
\* didClose or a didSave leaves the store exactly as it was.
C4_NeverDeleted ==
    [][ /\ DOMAIN documents \subseteq DOMAIN documents'
        /\ ( /\ main_pc = "dispatch"
             /\ msg.method \in {"textDocument/didClose", "textDocument/didSave"}
             /\ main_pc' # "dispatch" ) => documents' = documents ]_vars

\* C4 witness: a didClose for a document the store holds is about to be
\* handled.
C4_Witness ==
    /\ main_pc = "dispatch"
    /\ msg.method = "textDocument/didClose"
    /\ msg.uri \in DOMAIN documents
    /\ lock = "free"

\* C5: whenever the scan does not hold the lock, so that a query can take it,
\* the store holds either none of the scanned documents or all of them.
C5_ScanPublishedAtOnce ==
    lock # "indexer" =>
        /\ ix_inserted \in {{}, DOMAIN ix_documents}
        /\ ix_inserted \subseteq DOMAIN documents

\* C5 witness: the merge has inserted one of two scanned documents, and a
\* request is waiting for the lock.
C5_Witness ==
    /\ ix_pc = "extend"
    /\ Cardinality(DOMAIN ix_documents) = 2
    /\ Cardinality(ix_inserted) = 1
    /\ main_pc = "dispatch"
    /\ msg.method = "textDocument/hover"
    /\ msg.ok

\* C6 as stated: the lock is never held while an extractor parses, neither in
\* didOpen/didChange handling nor while a handler resolves the cursor token.
C6_NoParseUnderLock == ~(lock = "main" /\ main_pc \in {"parse", "cursor"})

\* C6 amended: the main task holds the lock exactly from the insertion or
\* content replacement of a didOpen/didChange to the end of the document's
\* parse, and while a handler resolves the token under the cursor; the scan
\* holds it exactly while it merges, not while it reads and parses.
C6_LockWithinOneSection ==
    /\ lock = "main" <=> main_pc \in {"parse", "cursor"}
    /\ lock = "indexer" <=> ix_pc = "extend"

\* C6 witness: a handler is resolving the cursor token under the lock while
\* the scan, done parsing, waits for the lock.
C6_Witness ==
    /\ lock = "main"
    /\ main_pc = "cursor"
    /\ ix_pc = "lock"

\* C7 as stated: once the scan has ended, every discovered file that can be
\* read is in the store, whatever happened to the files that cannot.
C7_ReadErrorDropsOnlyThatFile ==
    (ix_pc \in {"done", "panicked"} /\ main_pc # "panicked") =>
        \A p \in DOMAIN disk :
            (scan_matches(p) /\ disk[p].readable) => file_uri(p) \in DOMAIN documents

\* C8 as stated: the step that ends the handling of a request has sent
\* exactly one response, carrying the request's id, and the step that ends
\* the handling of a notification has sent none.
C8_OneResponsePerRequest ==
    [][ (main_pc # "recv" /\ main_pc' \in {"recv", "panicked"}) =>
            IF msg.type = "Request"
            THEN Len(sent') = 1 /\ sent'[1].id = msg.id
            ELSE sent' = <<>> ]_vars

C10_Definitions(tok) ==
    LET data == tok.data
    IN  CASE data.kind = "PhpClassReference" -> get_class_definition(documents, data.name)
          [] data.kind = "PhpMethodReference" ->
                 {f \in get_method_definition(documents, data) : IsSome(f)}
          [] data.kind = "DrupalServiceReference" ->
                 get_service_definition(documents, data.name)
          [] data.kind = "DrupalRouteReference" -> get_route_definition(documents, data.name)
          [] data.kind = "DrupalHookReference" -> get_hook_definition(documents, data.name)
          [] data.kind = "DrupalPermissionReference" ->
                 get_permission_definition(documents, data.name)
          [] OTHER -> {}

C10_ReferenceKinds ==
    {"PhpClassReference", "PhpMethodReference", "DrupalServiceReference",
     "DrupalRouteReference", "DrupalHookReference", "DrupalPermissionReference"}

\* The step in which a hover or definition handler answers.
C10_Answers(method) ==
    main_pc = "lookup" /\ msg.method = method /\ main_pc' = "recv"

\* The answer sent is the null result without an error, for the request's id.
C10_NullSent ==
    sent' = <<[id |-> msg.id, result |-> Some([json |-> "null"]), error |-> None]>>

\* C10 as stated: a hover or definition request for an unknown document, for
\* a position without a token, or for a reference of any kind without a
\* definition in the store is answered with null and no error.
C10_NotFoundIsNull ==
    [][ ( /\ C10_Answers("textDocument/hover") \/ C10_Answers("textDocument/definition")
          /\ \/ IsNone(token)
             \/ /\ token.val.data.kind \in C10_ReferenceKinds
                /\ C10_Definitions(token.val) = {} )
        => C10_NullSent ]_vars

\* C10 amended: a definition request is answered so for every kind of
\* reference; a hover request is answered so for the references to services,
\* routes, hooks and permissions, while a class or method reference is
\* described from the reference alone, definition or not.
C10_NotFoundIsNullButClassHover ==
    [][ /\ ( /\ C10_Answers("textDocument/definition")
             /\ \/ IsNone(token)
                \/ /\ token.val.data.kind \in C10_ReferenceKinds
                   /\ C10_Definitions(token.val) = {} )
           => C10_NullSent
        /\ ( /\ C10_Answers("textDocument/hover")
             /\ \/ IsNone(token)
                \/ /\ documentation_locks(token.val)
                   /\ C10_Definitions(token.val) = {} )
           => C10_NullSent
        /\ ( /\ C10_Answers("textDocument/hover")
             /\ IsSome(token)
             /\ token.val.data.kind \in {"PhpClassReference", "PhpMethodReference"} )
           => (Len(sent') = 1 /\ sent'[1].result.val.json = "Hover") ]_vars

\* C10 witness: a hover handler is about to answer for a service reference
\* that has no definition in the store.
C10_Witness ==
    /\ main_pc = "lookup"
    /\ msg.method = "textDocument/hover"
    /\ IsSome(token)
    /\ token.val.data.kind = "DrupalServiceReference"
    /\ C10_Definitions(token.val) = {}
    /\ lock = "free"

(***************************************************************************)
(* C11 .. C20                                                              *)
(***************************************************************************)
\* The kind of definition token a typed query looks for.
C11_Kind(fn) ==
    CASE fn = "get_service_definition" -> "DrupalServiceDefinition"
      [] fn = "get_route_definition" -> "DrupalRouteDefinition"
      [] fn = "get_class_definition" -> "PhpClassDefinition"
      [] fn = "get_hook_definition" -> "DrupalHookDefinition"
      [] fn = "get_permission_definition" -> "DrupalPermissionDefinition"

\* The documents of the store, of whatever file type, that hold a token of
\* the kind whose name is exactly the name asked for.
C11_Holders(kind, name) ==
    {u \in DOMAIN documents :
        \E i \in 1..Len(documents[u].tokens) :
            /\ documents[u].tokens[i].data.kind = kind
            /\ documents[u].tokens[i].data.name = name}

\* C11: a typed query called with a name returns nothing exactly when no
\* document of the store holds a definition token of the query's kind with
\* exactly that name; otherwise it returns a document of the store together
\* with one of that document's tokens, which is such a definition.
C11_QueryIsExactLookup ==
    call.fn \in TypedQueries =>
        /\ call.ret = {} <=> C11_Holders(C11_Kind(call.fn), call.arg) = {}
        /\ \A r \in call.ret :
               /\ r.uri \in DOMAIN documents
               /\ \E i \in 1..Len(documents[r.uri].tokens) :
                      documents[r.uri].tokens[i] = r.token
               /\ r.token.data.kind = C11_Kind(call.fn)
               /\ r.token.data.name = call.arg

\* C11 witness: the service is defined in two files of the store and the
\* query may return either.
C11_Witness ==
    /\ call.fn = "get_service_definition"
    /\ call.arg = S_my_svc
    /\ Cardinality(call.ret) = 2
    /\ \E u \in DOMAIN documents : documents[u].file_type = "Php"

\* C12: get_method_definition, called with a method reference that names its
\* class, returns nothing when get_class_definition finds no class of that
\* name; otherwise, for the class and document that query lands on, it
\* returns that document with the token the class's methods map holds under
\* the method's name, and nothing when the map has no such entry.
C12_MethodIsLookedUpInFoundClass ==
    (call.fn = "get_method_definition" /\ IsSome(call.arg.class_name)) =>
        LET classes == get_class_definition(documents, call.arg.class_name.val)
            name == call.arg.name
        IN  /\ classes = {} => call.ret = {None}
            /\ classes # {} =>
                   call.ret =
                       {IF name \in DOMAIN c.token.data.methods
                        THEN Some([uri |-> c.uri, token |-> c.token.data.methods[name]])
                        ELSE None : c \in classes}
            /\ \A r \in call.ret :
                   IsSome(r) => /\ r.val.token.data.kind = "PhpMethodDefinition"
                                /\ r.val.token.data.name = name
                                /\ r.val.uri \in DOMAIN documents

\* C12 witness: two files of the store define the class N\C, one with the
\* method m and one without: the call returns the method or nothing,
\* depending on the file get_class_definition lands on.
C12_Witness ==
    /\ call.fn = "get_method_definition"
    /\ call.arg.name = S_m
    /\ None \in call.ret
    /\ \E r \in call.ret : IsSome(r) /\ r.val.uri = U_php

\* The table of C13: the query each kind of reference resolves through.
C13_Table ==
    ("PhpClassReference" :> "get_class_definition")
    @@ ("DrupalServiceReference" :> "get_service_definition")
    @@ ("DrupalRouteReference" :> "get_route_definition")
    @@ ("DrupalHookReference" :> "get_hook_definition")
    @@ ("DrupalPermissionReference" :> "get_permission_definition")

\* The definitions the table finds for a token, as Options.
C13_Found(tok) ==
    IF tok.data.kind \in DOMAIN C13_Table
    THEN as_options(typed_query(documents, C13_Table[tok.data.kind], tok.data.name))
    ELSE IF tok.data.kind = "PhpMethodReference"
    THEN get_method_definition(documents, tok.data)
    ELSE {None}

\* C13: provide_definition_for_token resolves a class, method, service,
\* route, hook or permission reference through the query the table names,
\* and the Location it returns is the uri of the definition's document with
\* the range of the definition's token; a token of any other kind resolves
\* to nothing.
C13_ResolutionFollowsTable ==
    call.fn = "provide_definition_for_token" =>
        /\ call.ret = {IF IsNone(f) THEN None
                       ELSE Some([uri |-> f.val.uri, range |-> f.val.token.range]) :
                          f \in C13_Found(call.arg)}
        /\ (call.arg.data.kind \notin (DOMAIN C13_Table) \cup {"PhpMethodReference"})
               => call.ret = {None}

\* The first node, from n up the parent chain, for which the recogniser of
\* the file type yields a token in cursor mode; 0 when there is none.
RECURSIVE C14_Innermost(_, _, _, _, _)
C14_Innermost(file_type, tree, uri, n, point) ==
    IF IsSome(parse_node(file_type, tree, n, Some(point), uri)) THEN n
    ELSE IF node_parent(tree, n) = 0 THEN 0
    ELSE C14_Innermost(file_type, tree, uri, node_parent(tree, n), point)

C14_Expected(d, point) ==
    LET tree == get_tree(d.file_type, d.content)
        found == C14_Innermost(d.file_type, tree, d.uri,
                               descendant_for_point(tree, 1, point), point)
    IN  IF found = 0 THEN None
        ELSE parse_node(d.file_type, tree, found, Some(point), d.uri)

\* C14: get_token_at_position returns the token of the innermost node, on the
\* chain from the smallest node containing the position up to the root, for
\* which the recogniser yields a token, and returns nothing when there is no
\* such node; with the cursor in the literal of fromRoute('r.x') that token
\* is the route reference r.x.
C14_CursorYieldsInnermost ==
    call.fn = "get_token_at_position" =>
        /\ call.ret = C14_Expected(call.arg.document,
                                   <<call.arg.position.line, call.arg.position.character>>)
        /\ (call.arg.document.content = "P_api" /\ call.arg.position = Position(3, 17))
               => (/\ IsSome(call.ret)
                   /\ call.ret.val.data = [kind |-> "DrupalRouteReference", name |-> S_r_x])

\* The uri's last Len(suffix) characters are the suffix.
C15_HasSuffix(uri, suffix) ==
    /\ Len(uri) >= Len(suffix)
    /\ \A k \in 1..Len(suffix) : uri[Len(uri) - Len(suffix) + k] = suffix[k]

\* The file kind the suffix of a uri stands for.
C15_Kind(uri) ==
    IF \E suffix \in {S_yml, S_yaml} : C15_HasSuffix(uri, suffix) THEN "Yaml"
    ELSE IF \E suffix \in {S_php, S_module, S_theme, S_install} : C15_HasSuffix(uri, suffix)
    THEN "Php"
    ELSE "Unknown"

\* C15: uri_to_file_type yields Yaml for a uri that ends in .yml or .yaml,
\* Php for one that ends in .php, .module, .theme or .install, and Unknown
\* for every other uri; and the file type of every document of the store is
\* the one its uri stands for.
C15_KindFollowsSuffix ==
    /\ call.fn = "uri_to_file_type" => call.ret = C15_Kind(call.arg)
    /\ \A u \in DOMAIN documents :
           /\ documents[u].uri = u
           /\ documents[u].file_type = C15_Kind(u)

\* C15 witness: test.php.txt, which holds .php but does not end in it, is
\* classified on a store that holds documents.
C15_Witness ==
    /\ call.fn = "uri_to_file_type"
    /\ call.arg = S_test \o S_php \o S_txt
    /\ call.ret = "Unknown"
    /\ \E u \in DOMAIN documents : documents[u].file_type = "Php"

\* C16: a document whose uri has no known suffix never holds a token;
\* add_document on such a uri stores the text it is given, and
\* change_document with one full-text change stores that change's text, and
\* neither fails.
C16_UnknownKindKeepsContentOnly ==
    /\ \A u \in DOMAIN documents :
           documents[u].file_type = "Unknown" => documents[u].tokens = <<>>
    /\ (call.fn \in {"add_document", "change_document"}
            /\ C15_Kind(call.arg.uri) = "Unknown")
         => /\ call.ret # "panic"
            /\ call.fn = "add_document"
                 => /\ call.ret = "added"
                    /\ documents[call.arg.uri].content = call.arg.text
            /\ (call.ret = "changed" /\ Len(call.arg.changes) = 1)
                 => documents[call.arg.uri].content = call.arg.changes[1]
            /\ (call.fn = "change_document" /\ call.arg.uri \in DOMAIN documents
                    /\ Len(call.arg.changes) = 1)
                 => call.ret = "changed"

\* C16 witness: the text of a .txt document is replaced by text that holds a
\* PHP class, and the document has no token.
C16_Witness ==
    /\ call.fn = "change_document"
    /\ call.arg.uri = U_txt
    /\ call.arg.changes = <<"P_cls">>
    /\ call.ret = "changed"
    /\ documents[U_txt].content = "P_cls"
    /\ documents[U_txt].tokens = <<>>

\* A string without its leading, and without its trailing, quotes and
\* backslashes.
RECURSIVE C17_StripLeading(_)
C17_StripLeading(value) ==
    IF value # <<>> /\ Head(value) \in {"'", "\\"} THEN C17_StripLeading(Tail(value))
    ELSE value

RECURSIVE C17_StripTrailing(_)
C17_StripTrailing(value) ==
    IF value # <<>> /\ value[Len(value)] \in {"'", "\\"}
    THEN C17_StripTrailing(SubSeq(value, 1, Len(value) - 1))
    ELSE value

\* C17: PhpClassName::from yields its argument without every leading and
\* every trailing single quote and backslash, the characters between them
\* untouched; N\C, \N\C and '\N\C\' all yield N\C; and the conversion of
\* a result yields that result.
C17_CanonicalisationStripsEnds ==
    call.fn = "PhpClassName::from"
    => /\ call.ret.name = C17_StripTrailing(C17_StripLeading(call.arg))
       /\ call.ret.again = call.ret.name
       /\ call.arg \in {S_NC, <<"\\">> \o S_NC, <<"'", "\\">> \o S_NC \o <<"\\", "'">>}
            => call.ret.name = S_NC

\* C17 witness: '\N\C\', with two characters to strip at each end, yields
\* N\C.
C17_Witness ==
    /\ call.fn = "PhpClassName::from"
    /\ call.arg = <<"'", "\\">> \o S_NC \o <<"\\", "'">>
    /\ call.ret.name = S_NC

\* The places of a string where "::" stands.
C18_Colons(value) ==
    {i \in 1..(Len(value) - 1) : value[i] = ":" /\ value[i + 1] = ":"}

\* The text before, and the text after, the first "::" of a string that
\* holds one.
C18_Before(value) == SubSeq(value, 1, SetMin(C18_Colons(value)) - 1)
C18_After(value) == SubSeq(value, SetMin(C18_Colons(value)) + 2, Len(value))

\* C18 (as amended): PhpMethod::try_from succeeds exactly on the strings
\* that hold "::"; the class is the canonicalised text before the first
\* "::", no service name is set, and the method name is the text after the
\* first "::" without its trailing single quotes and backslashes.
C18_MethodSplitsAtFirstColons ==
    call.fn = "PhpMethod::try_from"
    => /\ IsSome(call.ret) <=> C18_Colons(call.arg) # {}
       /\ call.ret.tag \in {"Some", "None"}
       /\ IsSome(call.ret)
            => /\ call.ret.val.class_name
                    = Some(C17_StripTrailing(C17_StripLeading(C18_Before(call.arg))))
               /\ call.ret.val.service_name = None
               /\ call.ret.val.name = C17_StripTrailing(C18_After(call.arg))

\* C18 witness: '\N\C::m', the quoted form of a routing file, yields the
\* method m of the class N\C.
C18_Witness ==
    /\ call.fn = "PhpMethod::try_from"
    /\ call.arg = <<"'", "\\">> \o S_NC_m \o <<"'">>
    /\ IsSome(call.ret)
    /\ call.ret.val.name = S_m
    /\ call.ret.val.class_name = Some(S_NC)

\* C18 as stated: on success the method name is the whole text after the
\* first "::".
C18_NameIsTextAfterColons ==
    (call.fn = "PhpMethod::try_from" /\ IsSome(call.ret))
    => call.ret.val.name = C18_After(call.arg)

\* C19 as stated: once the scan has ended, the documents it has added to the
\* store are exactly the files of the workspace folder whose path matches a
\* whitelist glob and no "!" glob.
C19_ScanAddsExactlyMatches ==
    ix_pc \in {"done", "panicked"} =>
        \A p \in DOMAIN disk : file_uri(p) \in ix_inserted <=> scan_matches(p)

\* C20 as stated: every response the completion handler ends in for a
\* request with valid params is a completion list that holds every fixed
\* global snippet.
C20_EveryCompletionHoldsSnippets ==
    call.fn = "handle_text_document_completion"
    => /\ call.ret # Panic
       /\ IsSome(call.ret.result)
       /\ call.ret.result.val.json = "CompletionList"
       /\ \A name \in FixedSnippets :
              \E item \in BagToSet(call.ret.result.val.items) :
                  item.label = name /\ item.kind = "SNIPPET"

\* The {segment}s of a path: the places of an opening brace, with the
\* closing brace that follows it with at least one character and no brace
\* in between.
C21_Segments(path) ==
    {<<i, j>> \in (1..Len(path)) \X (1..Len(path)) :
        /\ path[i] = "{" /\ path[j] = "}" /\ j > i + 1
        /\ \A k \in (i + 1)..(j - 1) : path[k] \notin {"{", "}"}}

\* The list ", ['p1' => $p1, ...]" for the segments from place `from` on.
RECURSIVE C21_Entries(_, _)
C21_Entries(path, from) ==
    LET rest == {s \in C21_Segments(path) : s[1] >= from}
        first == CHOOSE s \in rest : \A t \in rest : s[1] <= t[1]
        p == SubSeq(path, first[1] + 1, first[2] - 1)
    IN  IF rest = {} THEN <<>>
        ELSE (IF from = 1 THEN <<>> ELSE <<",", " ">>)
             \o <<"'">> \o p \o <<"'", " ", "=", ">", " ", "$">> \o p
             \o C21_Entries(path, first[2] + 1)

C21_List(path) ==
    IF C21_Segments(path) = {} THEN <<>>
    ELSE <<",", " ", "[">> \o C21_Entries(path, 1) \o <<"]">>

\* The request of a completion call, its token and its line.
C21_Token ==
    IF call.arg.uri \in DOMAIN documents
    THEN get_token_under_cursor(documents[call.arg.uri],
             cursor_position(Request("textDocument/completion", TRUE, 1, call.arg.uri,
                                     call.arg.position)))
    ELSE None

C21_Line == nth_line(documents[call.arg.uri], call.arg.position.line)

C21_RouteItems ==
    {item \in BagToSet(call.ret.result.val.items) :
        item.kind = "REFERENCE" /\ item.description = "Route"}

\* C21 as stated: the completion on a route reference returns one item per
\* route definition token of the store; when the line of the cursor holds
\* fromRoute('<name>', every item carries one additional edit, which starts
\* at the character directly after the closing quote of the name and whose
\* text is the list of the {segment}s of the item's route, in path order,
\* and is empty for a path without a segment.
C21_RouteItemsCarryParameters ==
    (/\ call.fn = "handle_text_document_completion"
     /\ IsSome(C21_Token)
     /\ C21_Token.val.data.kind = "DrupalRouteReference")
    => /\ call.ret # Panic
       /\ IsSome(call.ret.result)
       /\ call.ret.result.val.json = "CompletionList"
       /\ \A place \in places_of_kind(documents, "DrupalRouteDefinition") :
             LET name == token_at(documents, place).data.name
                 named == {i \in C21_RouteItems : i.label = name}
                 copies == [i \in named |-> CopiesIn(i, call.ret.result.val.items)]
             IN  /\ named # {}
                 /\ BagCardinality(copies)
                      = Cardinality({q \in places_of_kind(documents, "DrupalRouteDefinition") :
                                        token_at(documents, q).data.name = name})
       /\ \A item \in C21_RouteItems :
             \E place \in places_of_kind(documents, "DrupalRouteDefinition") :
                 LET route == token_at(documents, place).data
                     found == route_captures(C21_Line)
                 IN  /\ item.label = route.name
                     /\ IsSome(found)
                          => /\ IsSome(item.additional_text_edits)
                             /\ Len(item.additional_text_edits.val) = 1
                             /\ item.additional_text_edits.val[1].line = call.arg.position.line
                             /\ item.additional_text_edits.val[1].start
                                  = Len(found.val.method) + Len(found.val.name) + 1
                             /\ item.additional_text_edits.val[1].new_text = C21_List(route.path)

(***************************************************************************)
(* C22: the code action on a TranslationString inserts, immediately before *)
(* the closing parenthesis of the call, the list ", [..]" with exactly one *)
(* entry '<placeholder>' => '' per substring of the string that matches    *)
(* [@%:]\w+, in order of occurrence; a bare '@', '%' or ':' that no word   *)
(* character follows yields no entry.                                      *)
(***************************************************************************)
RECURSIVE C22_WordRun(_, _)
C22_WordRun(text, i) ==
    IF i <= Len(text) /\ text[i] \in WordChars THEN C22_WordRun(text, i + 1) ELSE i

\* The substrings that match [@%:]\w+, leftmost first, from index i on.
RECURSIVE C22_Matches(_, _)
C22_Matches(text, i) ==
    IF i > Len(text) THEN <<>>
    ELSE IF text[i] \in {"@", "%", ":"} /\ C22_WordRun(text, i + 1) > i + 1
    THEN <<SubSeq(text, i, C22_WordRun(text, i + 1) - 1)>>
         \o C22_Matches(text, C22_WordRun(text, i + 1))
    ELSE C22_Matches(text, i + 1)

RECURSIVE C22_Entries(_, _)
C22_Entries(matches, k) ==
    IF k > Len(matches) THEN <<>>
    ELSE (IF k = 1 THEN <<>> ELSE <<",", " ">>)
         \o <<"'">> \o matches[k] \o <<"'", " ", "=", ">", " ", "'", "'">>
         \o C22_Entries(matches, k + 1)

C22_List(string) == <<",", " ", "[">> \o C22_Entries(C22_Matches(string, 1), 1) \o <<"]">>

C22_Token ==
    IF call.arg.uri \in DOMAIN documents
    THEN get_token_under_cursor(documents[call.arg.uri], call.arg.position)
    ELSE None

\* The 0-based character of the last ")" of the line of the call.
C22_ClosingParenthesis ==
    LET line == nth_line(documents[call.arg.uri], C22_Token.val.range.end_point[1])
    IN  SetMax({k \in 1..Len(line) : line[k] = ")"}) - 1

C22_CodeActionListsPlaceholders ==
    /\ (/\ call.fn = "handle_text_document_code_action"
        /\ IsSome(C22_Token)
        /\ C22_Token.val.data.kind = "DrupalTranslationString")
       => /\ call.ret # Panic
          /\ Len(call.ret.result.val.actions) = 1
          /\ call.ret.result.val.actions[1].uri = call.arg.uri
          /\ call.ret.result.val.actions[1].line = C22_Token.val.range.end_point[1]
          /\ call.ret.result.val.actions[1].character = C22_ClosingParenthesis
          /\ call.ret.result.val.actions[1].new_text = C22_List(C22_Token.val.data.string)
    /\ call.fn = "arguments_string" => call.ret = C22_List(call.arg)

(***************************************************************************)
(* C23: in scan mode the PHP extractor emits only ClassDefinition,         *)
(* HookDefinition and HookReference tokens as top-level tokens: never a    *)
(* top-level MethodDefinition, also not for a class outside a namespace,   *)
(* never a reference derived from a call, and no token from inside a node  *)
(* that produced a token.                                                  *)
(***************************************************************************)
C23_Within(inner, outer) ==
    /\ point_le(outer.start_point, inner.start_point)
    /\ point_le(inner.end_point, outer.end_point)

C23_ScanKinds == {"PhpClassDefinition", "DrupalHookDefinition", "DrupalHookReference"}

C23_ScanEmitsOnlyTopLevelKinds ==
    (call.fn = "get_tokens" /\ call.ret # Panic)
        => /\ \A k \in 1..Len(call.ret.val) : call.ret.val[k].data.kind \in C23_ScanKinds
           /\ \A j, k \in 1..Len(call.ret.val) :
                  j # k => ~C23_Within(call.ret.val[j].range, call.ret.val[k].range)

(***************************************************************************)
(* C24: the methods map of every ClassDefinition token has one entry per   *)
(* distinct method name declared directly in the class body, and each      *)
(* entry k -> child is a MethodDefinition token whose name is k and whose  *)
(* class_name is the qualified name of the class.                          *)
(***************************************************************************)
\* The method names the source declares in the body of its class.
C24_Declared(content) ==
    IF content \in DOMAIN ClassParts
    THEN {ClassParts[content][2][k] : k \in 1..Len(ClassParts[content][2])}
    ELSE IF content = "P_cls" THEN {S_m}
    ELSE {}

C24_ClassTokens ==
    IF call.fn = "get_tokens" /\ call.ret # Panic
    THEN {<<call.arg.content, call.ret.val[k]>> : k \in 1..Len(call.ret.val)}
    ELSE IF call.fn = "get_token_at_position" /\ IsSome(call.ret)
    THEN {<<call.arg.document.content, call.ret.val>>}
    ELSE {}

C24_MethodsMapOfClass ==
    \A c \in C24_ClassTokens :
        c[2].data.kind = "PhpClassDefinition"
            => /\ DOMAIN c[2].data.methods = C24_Declared(c[1])
               /\ \A k \in DOMAIN c[2].data.methods :
                      /\ c[2].data.methods[k].data.kind = "PhpMethodDefinition"
                      /\ c[2].data.methods[k].data.name = k
                      /\ c[2].data.methods[k].data.class_name = Some(c[2].data.name)

\* The extractor has run on the class that declares m, q and m again, and
\* its class token maps exactly m and q.
C24_Witness ==
    /\ call.fn = "get_tokens"
    /\ call.arg.content = "P_cls_dup"
    /\ call.ret # Panic
    /\ \E k \in 1..Len(call.ret.val) :
           /\ call.ret.val[k].data.kind = "PhpClassDefinition"
           /\ DOMAIN call.ret.val[k].data.methods = {S_m, S_q}

(***************************************************************************)
(* C25: a YAML pair whose value is a mapping is classified in this order:  *)
(* PermissionDefinition when the uri ends with .permissions.yml and the    *)
(* mapping has a title; else RouteDefinition when the mapping has path and *)
(* defaults, also in a .permissions.yml file whose mapping has no title;   *)
(* else ServiceDefinition when the mapping has class; else by the key.     *)
(***************************************************************************)
C25_Has(field) == \E k \in 1..Len(call.arg.entries) : call.arg.entries[k][1] = field

C25_Value(field) ==
    call.arg.entries[CHOOSE k \in 1..Len(call.arg.entries) : call.arg.entries[k][1] = field][2]

C25_Permissions == ends_with(call.arg.uri, S_permissions_yml)

\* The kind of the token, "" for no token.
C25_Kind == IF IsSome(call.ret) THEN call.ret.val.data.kind ELSE ""

\* What the match on the key yields for the two keys: a class reference for
\* class, nothing for adm.
C25_ByKey == IF call.arg.key = S_class THEN "PhpClassReference" ELSE ""

C26_Call ==
    LET content == call.arg.document.content
    IN  IF content \in DOMAIN CallParts
        THEN <<CallParts[content][3], CallParts[content][4]>>
        ELSE IF content \in DOMAIN MemberCallParts
        THEN <<MemberCallParts[content][2], MemberCallParts[content][3]>>
        ELSE <<>>

\* The cursor is on a character of the literal of that call.
C26_CursorInLiteral ==
    LET line == nth_line(call.arg.document, call.arg.position.line)
        open == C26_Call[1] \o <<"(", "'">>
        at == call.arg.position.character + 1
    IN  /\ call.arg.position.line = 1
        /\ \E k \in 1..Len(line) :
               /\ k + Len(open) - 1 <= Len(line)
               /\ SubSeq(line, k, k + Len(open) - 1) = open
               /\ k + Len(open) <= at
               /\ at < k + Len(open) + Len(C26_Call[2])

C26_RouteCallYieldsRouteReference ==
    (/\ call.fn = "get_token_at_position"
     /\ C26_Call # <<>>
     /\ C26_Call[1] \in {S_fromRoute, S_createFromRoute, S_setRedirect}
     /\ C26_CursorInLiteral)
        => /\ IsSome(call.ret)
           /\ call.ret.val.data = [kind |-> "DrupalRouteReference", name |-> C26_Call[2]]

(***************************************************************************)
(* C27: the parameters of a HookDefinition are the text of the parameter   *)
(* list with exactly its one outer pair of parentheses removed; inner      *)
(* parentheses, such as those of a trailing default array(), are kept.     *)
(***************************************************************************)
C27_HookDefinitions ==
    IF call.fn = "parse_nodes" /\ call.ret # Panic
    THEN {call.ret.val[k] : k \in {j \in 1..Len(call.ret.val) :
                                      call.ret.val[j].data.kind = "DrupalHookDefinition"}}
    ELSE {}

C27_ParametersLoseOuterPair ==
    \A definition \in C27_HookDefinitions :
        definition.data.parameters =
            Some(SubSeq(call.arg.parameters, 2, Len(call.arg.parameters) - 1))

(***************************************************************************)
(* C28: for every comment that contains "Implements hook_" the name of the *)
(* HookReference is the text from the first "hook_" up to the next "()"    *)
(* after it; when there is no such "()", none at all or only before        *)
(* "hook_", the comment is skipped without token and the extraction        *)
(* completes.                                                              *)
(***************************************************************************)
\* The 1-based indices at which pattern occurs in text.
C28_Occurrences(text, pattern) ==
    {k \in 1..Len(text) :
        /\ k + Len(pattern) - 1 <= Len(text)
        /\ SubSeq(text, k, k + Len(pattern) - 1) = pattern}

C28_Start == SetMin(C28_Occurrences(call.arg.comment, S_hook_))

C28_Ends == {k \in C28_Occurrences(call.arg.comment, S_parens) : k > C28_Start}

C28_HookReferences ==
    {call.ret.val[k].data.name : k \in {j \in 1..Len(call.ret.val) :
                                          call.ret.val[j].data.kind = "DrupalHookReference"}}

C28_CommentNamesHook ==
    (/\ call.fn = "parse_nodes"
     /\ C28_Occurrences(call.arg.comment, S_Implements_hook_) # {})
        => /\ call.ret # Panic
           /\ C28_HookReferences =
                  IF C28_Ends = {} THEN {}
                  ELSE {SubSeq(call.arg.comment, C28_Start, SetMin(C28_Ends) - 1)}

(***************************************************************************)
(* C29: no handler path acquires the store lock, which is not reentrant,   *)
(* while the same thread holds it: the hover, definition, code-action and  *)
(* completion handlers have released the guard of the cursor lookup before *)
(* they lock again, and what the completion handler calls inside its walk  *)
(* of the store (the rendering of documentation) does not lock.            *)
(***************************************************************************)
C29_NoLockWhileHeld ==
    /\ main_pc # "relock"
    /\ main_pc \in {"dispatch", "lookup", "snippets", "complete"} => lock # "main"

\* A completion has been answered with an item that was documented inside
\* the walk of the store.
C29_Witness ==
    \E i \in 1..Len(sent) :
        /\ IsSome(sent[i].result)
        /\ sent[i].result.val # Null
        /\ sent[i].result.val.json = "CompletionList"
        /\ \E item \in BagToSet(sent[i].result.val.items) :
               /\ "description" \in DOMAIN item
               /\ item.description = "Service"
               /\ IsSome(item.documentation)

(***************************************************************************)
(* C30: the merge of the indexer is last-writer-wins per uri: when it ends *)
(* the store holds, for every uri of the scan batch, the scanned document, *)
(* also when the editor opened or changed that document before the merge,  *)
(* and the merge leaves every document that is not in the batch as it was. *)
(***************************************************************************)
C30_MergeOverwritesBatch ==
    [][ /\ (ix_pc = "extend" /\ ix_pc' = "done")
           => \A u \in DOMAIN ix_documents :
                  u \in DOMAIN documents' /\ documents'[u] = ix_documents[u]
        /\ ix_pc = "extend"
           => \A u \in (DOMAIN documents \cup DOMAIN documents') \ DOMAIN ix_documents :
                  /\ u \in DOMAIN documents
                  /\ u \in DOMAIN documents'
                  /\ documents'[u] = documents[u] ]_vars

\* The merge is under way with one scanned document inserted, and the store
\* still holds, for another uri of the batch, a version of the editor that
\* differs from the scanned one, next to a document outside the batch.
C30_Witness ==
    /\ ix_pc = "extend"
    /\ ix_inserted # {}
    /\ \E u \in (DOMAIN ix_documents) \ ix_inserted :
           u \in DOMAIN documents /\ documents[u].content # ix_documents[u].content
    /\ DOMAIN documents \ DOMAIN ix_documents # {}
====
